---- MODULE Spec2Model ----
(***************************************************************************)
(* A model of the postgrest Agent (postgrest.go): the request builder      *)
(* that picks an endpoint and a signed identity per HTTP method, sends     *)
(* the request through the injected transport and normalises the reply.    *)
(*                                                                         *)
(* Representation.  A Go string that the program parses or assembles (a    *)
(* URL, a JSON body) is a sequence of lexical tokens; every other string   *)
(* is a TLA+ string.  A value that may be nil (a pointer, an interface) is *)
(* a sequence of length at most one.  An error is its message; the nil     *)
(* error is NoErr.                                                         *)
(***************************************************************************)
EXTENDS Integers, Sequences, FiniteSets, TLC

VARIABLES
    config,       \* Agent.config: the Config the Agent was built with
    generateJWT,  \* Agent.generateJWT: the injected signer
    pc,           \* the caller's position: "idle" or "returned"
    op,           \* the operation the caller ran last
    args,         \* the arguments of that call
    signs,        \* the signer invocations made by that call, in order
    sent,         \* the requests that call handed to the transport, in order
    ret,          \* what that call returned
    threads       \* concurrent callers of one Agent: each caller's local variables

vars == <<config, generateJWT, pc, op, args, signs, sent, ret, threads>>

Nil == <<>>
Some(x) == <<x>>
NoErr == "<nil>"

\* Bind a value to a name: With(e, LAMBDA v : body) is body with v = e.
With(v, Body(_)) == Body(v)

RECURSIVE Flatten(_)
\* The Go string a token sequence stands for.
Flatten(s) == IF s = <<>> THEN "" ELSE Head(s) \o Flatten(Tail(s))

\* Index of the first occurrence of tok in s, or 0.
IndexOf(s, tok) ==
    IF \E i \in 1..Len(s) : s[i] = tok
    THEN CHOOSE i \in 1..Len(s) : s[i] = tok /\ \A j \in 1..(i - 1) : s[j] # tok
    ELSE 0

(***************************************************************************)
(* Error values of the package.                                            *)
(***************************************************************************)
errMissingConfigParams == "postgrest error: missing config parameter"
errMissingHTTPClient == "postgrest error: missing httpClient parameter"
errMissingJWTGenerator == "postgrest error: missing jwtGenerator parameter"
errMissingRequestMethod == "postgrest error: missing request method"
errMissingRequestURL == "postgrest error: missing request url"
errMissingURLPath == "postgrest error: table name not specified in request"
errMissingRoleClaim == "postgrest error: missing 'role' in postgrest claims"
errInvalidExpiryClaim == "postgrest error: invalid 'exp' in postgrest claims"

(***************************************************************************)
(* HTTP names used by the package.                                         *)
(***************************************************************************)
MethodGet == "GET"
MethodPost == "POST"
MethodPatch == "PATCH"
MethodDelete == "DELETE"
StatusInternalServerError == 500

(***************************************************************************)
(* net/url, at token level.  "http://m/old?x=1" is                         *)
(* <<"http", ":", "//", "m", "/", "old", "?", "x=1">>.                       *)
(***************************************************************************)
URL0 == [Scheme |-> "", Opaque |-> <<>>, Host |-> "", Path |-> <<>>, RawQuery |-> <<>>]

\* strings.Cut(s, sep): s around the first sep.
cut(s, sep) ==
    With(IndexOf(s, sep), LAMBDA i :
        IF i = 0 THEN [before |-> s, after |-> <<>>]
        ELSE [before |-> SubSeq(s, 1, i - 1), after |-> SubSeq(s, i + 1, Len(s))])

\* getScheme: the scheme before the first ":", and what follows it.
getScheme(s) ==
    IF Len(s) >= 2 /\ s[2] = ":" /\ s[1] \notin {"/", "//", "?"}
    THEN [scheme |-> s[1], rest |-> SubSeq(s, 3, Len(s))]
    ELSE [scheme |-> "", rest |-> s]

\* The authority ("//host") and path of rest, after "//".
parseAuthority(scheme, after, query) ==
    With(IndexOf(after, "/"), LAMBDA slash :
        [URL0 EXCEPT !.Scheme = scheme, !.RawQuery = query,
                     !.Host = Flatten(IF slash = 0 THEN after
                                      ELSE SubSeq(after, 1, slash - 1)),
                     !.Path = IF slash = 0 THEN <<>>
                              ELSE SubSeq(after, slash, Len(after))])

\* url.Parse past the scheme and the query: opaque, with authority, or path only.
parseRest(scheme, rest, query) ==
    IF scheme # "" /\ rest # <<>> /\ rest[1] \notin {"/", "//"}
    THEN [URL0 EXCEPT !.Scheme = scheme, !.Opaque = rest, !.RawQuery = query]
    ELSE IF rest # <<>> /\ rest[1] = "//"
    THEN parseAuthority(scheme, Tail(rest), query)
    ELSE [URL0 EXCEPT !.Scheme = scheme, !.Path = rest, !.RawQuery = query]

\* url.Parse: (URL, error).
urlParse(s) ==
    IF s # <<>> /\ s[1] = ":"
    THEN [url |-> URL0, err |-> "parse " \o Flatten(s) \o ": missing protocol scheme"]
    ELSE With(getScheme(s), LAMBDA g :
         With(cut(g.rest, "?"), LAMBDA c :
              [url |-> parseRest(g.scheme, c.before, c.after), err |-> NoErr]))

\* (*URL).String.
urlString(u) ==
    (IF u.Scheme # "" THEN <<u.Scheme, ":">> ELSE <<>>) \o
    (IF u.Opaque # <<>>
     THEN u.Opaque
     ELSE (IF (u.Scheme # "" \/ u.Host # "") /\ (u.Host # "" \/ u.Path # <<>>)
           THEN <<"//">> ELSE <<>>) \o
          (IF u.Host # "" THEN <<u.Host>> ELSE <<>>) \o
          (IF u.Path # <<>> /\ u.Path[1] # "/" /\ u.Host # "" THEN <<"/">> ELSE <<>>) \o
          u.Path) \o
    (IF u.RawQuery # <<>> THEN <<"?">> \o u.RawQuery ELSE <<>>)

\* The keys a url.Values may hold, in the order Values.Encode sorts them.
QueryKeys == <<"error", "id">>

\* strings.Join(<<head>> \o tail, "&").
joinAmp(head, tail) == IF tail = <<>> THEN <<head>> ELSE <<head, "&">> \o tail

RECURSIVE encodeFrom(_, _)
encodeFrom(v, i) ==
    IF i > Len(QueryKeys) THEN <<>>
    ELSE IF QueryKeys[i] \in DOMAIN v
    THEN joinAmp(QueryKeys[i] \o "=" \o v[QueryKeys[i]], encodeFrom(v, i + 1))
    ELSE encodeFrom(v, i + 1)

\* url.Values.Encode: the pairs sorted by key, joined by "&".
valuesEncode(v) == encodeFrom(v, 1)

\* Faulty variant of buildURLStr: the base address is parsed before the path
\* is looked at.
buildURLStr_ParseFirst(baseURL, path, queryParams) ==
    With(urlParse(baseURL), LAMBDA p :
        IF p.err # NoErr
        THEN [str |-> <<>>, err |-> p.err]
        ELSE IF path = ""
        THEN [str |-> <<>>, err |-> errMissingURLPath]
        ELSE [str |-> urlString([p.url EXCEPT
                         !.Path = <<path>>,
                         !.RawQuery = IF queryParams # Nil
                                      THEN valuesEncode(queryParams[1]) ELSE <<>>]),
              err |-> NoErr])

\* Faulty variant of buildURLStr: an empty path is accepted.
buildURLStr_AnyPath(baseURL, path, queryParams) ==
    With(urlParse(baseURL), LAMBDA p :
        IF p.err # NoErr
        THEN [str |-> <<>>, err |-> p.err]
        ELSE [str |-> urlString([p.url EXCEPT
                         !.Path = <<path>>,
                         !.RawQuery = IF queryParams # Nil
                                      THEN valuesEncode(queryParams[1]) ELSE <<>>]),
              err |-> NoErr])

\* buildURLStr(baseURL, path, queryParams): (string, error).
buildURLStr(baseURL, path, queryParams) ==
    IF path = ""
    THEN [str |-> <<>>, err |-> errMissingURLPath]
    ELSE With(urlParse(baseURL), LAMBDA p :
         IF p.err # NoErr
         THEN [str |-> <<>>, err |-> p.err]
         ELSE [str |-> urlString([p.url EXCEPT
                          !.Path = <<path>>,
                          !.RawQuery = IF queryParams # Nil
                                       THEN valuesEncode(queryParams[1]) ELSE <<>>]),
               err |-> NoErr])

(***************************************************************************)
(* int64 and time.Duration.  A 64-bit value is the sequence of its four    *)
(* 16-bit limbs, least significant first, in two's complement; every       *)
(* operation keeps the low 64 bits, as Go's integer arithmetic does.       *)
(***************************************************************************)
Limb == 65536
Limbs == 4
Thousand == 1000

\* x + n and x * k for small n and k, modulo 2^64.
RECURSIVE addFrom(_, _, _)
addFrom(x, i, carry) ==
    IF i > Limbs THEN <<>>
    ELSE <<(x[i] + carry) % Limb>> \o addFrom(x, i + 1, (x[i] + carry) \div Limb)

RECURSIVE mulFrom(_, _, _, _)
mulFrom(x, k, i, carry) ==
    IF i > Limbs THEN <<>>
    ELSE <<(x[i] * k + carry) % Limb>> \o mulFrom(x, k, i + 1, (x[i] * k + carry) \div Limb)

\* Quotient and remainder of the unsigned x by a small k, from limb i down.
RECURSIVE divFrom(_, _, _, _)
divFrom(x, k, i, rem) ==
    IF i = 0 THEN [q |-> <<>>, r |-> rem]
    ELSE With(divFrom(x, k, i - 1, (rem * Limb + x[i]) % k), LAMBDA d :
         [q |-> Append(d.q, (rem * Limb + x[i]) \div k), r |-> d.r])

negate(x) == addFrom([i \in 1..Limbs |-> Limb - 1 - x[i]], 1, 1)
negative(x) == x[Limbs] >= Limb \div 2

\* int64(n) of a number n between -2^31 and 2^31.
Int64(n) ==
    IF n < 0
    THEN negate([i \in 1..Limbs |-> CASE i = 1 -> (0 - n) % Limb [] i = 2 -> (0 - n) \div Limb
                                       [] OTHER -> 0])
    ELSE [i \in 1..Limbs |-> CASE i = 1 -> n % Limb [] i = 2 -> n \div Limb [] OTHER -> 0]

\* x < y as unsigned values, comparing from limb i down.
RECURSIVE below(_, _, _)
below(x, y, i) ==
    IF i = 0 THEN FALSE
    ELSE IF x[i] # y[i] THEN x[i] < y[i]
    ELSE below(x, y, i - 1)

\* x <= y as int64.
lessOrEqual(x, y) ==
    IF negative(x) # negative(y) THEN negative(x)
    ELSE x = y \/ below(x, y, Limbs)

\* d * time.Second: time.Second is 1000 * 1000 * 1000 nanoseconds.
timesSecond(d) == mulFrom(mulFrom(mulFrom(d, Thousand, 1, 0), Thousand, 1, 0), Thousand, 1, 0)

\* The unsigned x divided by 10^9: the quotient, and whether it is exact.
bySecond(x) ==
    With(divFrom(x, Thousand, Limbs, 0), LAMBDA a :
    With(divFrom(a.q, Thousand, Limbs, 0), LAMBDA b :
    With(divFrom(b.q, Thousand, Limbs, 0), LAMBDA c :
        [q |-> c.q, exact |-> a.r = 0 /\ b.r = 0 /\ c.r = 0])))

\* By how many seconds t.Add(d) moves the Unix time of a t on a whole
\* second: d / 10^9 rounded down.
wholeSeconds(d) ==
    IF negative(d)
    THEN With(bySecond(negate(d)), LAMBDA m :
              negate(IF m.exact THEN m.q ELSE addFrom(m.q, 1, 1)))
    ELSE bySecond(d).q

\* x + y modulo 2^64.
RECURSIVE sumFrom(_, _, _, _)
sumFrom(x, y, i, carry) ==
    IF i > Limbs THEN <<>>
    ELSE <<(x[i] + y[i] + carry) % Limb>>
             \o sumFrom(x, y, i + 1, (x[i] + y[i] + carry) \div Limb)

\* time.Unix(now, 0).Add(d).Unix().
unixAfter(now, d) == sumFrom(Int64(now), wholeSeconds(d), 1, 0)

(***************************************************************************)
(* Claims and the signer.                                                  *)
(***************************************************************************)
\* generateClaims(role, config), with time.Now() = now (Unix seconds).
generateClaims(role, cfg, now) ==
    [Role |-> role, Issuer |-> cfg.Issuer,
     ExpiresAt |-> unixAfter(now, timesSecond(cfg.Timeout))]

\* The JWTGenerator injected into the Agent: (tokenStr, err).
callJWT(signer, claims, secret) ==
    CASE signer = "sign"    -> [tokenStr |-> "jwt." \o claims.Role \o "." \o secret,
                                err |-> NoErr]
      [] signer = "fixed"   -> [tokenStr |-> "secret", err |-> NoErr]
      [] signer = "failing" -> [tokenStr |-> "", err |-> "mock error"]
      [] OTHER              -> [tokenStr |-> "partial", err |-> "mock error"]

\* Faulty variant of signedToken: the token is not prefixed with the scheme.
signedToken_NoScheme(signer, claims, secret) ==
    With(callJWT(signer, claims, secret), LAMBDA r :
        [tokenStr |-> r.tokenStr, err |-> r.err,
         signs |-> <<[claims |-> claims, secret |-> secret,
                      tokenStr |-> r.tokenStr, err |-> r.err]>>])

\* One invocation of agent.generateJWT(claims, secret) and the token string
\* formatted from its result: (string, error).
signedToken(signer, claims, secret) ==
    With(callJWT(signer, claims, secret), LAMBDA r :
        [tokenStr |-> "Bearer " \o r.tokenStr, err |-> r.err,
         signs |-> <<[claims |-> claims, secret |-> secret,
                      tokenStr |-> r.tokenStr, err |-> r.err]>>])

\* Agent.generateReadTokenStr: (string, error), and the signer invocation it made.
generateReadTokenStr(cfg, signer, now) ==
    signedToken(signer, generateClaims(cfg.SlaveRole, cfg, now), cfg.SlaveSecret)

\* Agent.generateWriteTokenStr.
generateWriteTokenStr(cfg, signer, now) ==
    signedToken(signer, generateClaims(cfg.MasterRole, cfg, now), cfg.MasterSecret)

(***************************************************************************)
(* Requests.                                                               *)
(***************************************************************************)
\* http.NewRequest rejects a method that is not an HTTP token; of the methods
\* callers pass here only "BAD METHOD" (it holds a space) is none.
validMethod(method) == method # "BAD METHOD"

Header0 == [Authorization |-> <<>>, Prefer |-> <<>>]

\* Header.Add(key, value) appends value to the values of key.
headerAdd(h, key, value) == [h EXCEPT ![key] = Append(@, value)]

\* newRequest(method, urlStr, tokenStr, body): (*http.Request, error).
\* http.NewRequest reads an empty method as GET, checks the method, then
\* parses the URL.
newRequest(method, urlStr, tokenStr, body) ==
    IF method # "" /\ ~validMethod(method)
    THEN [request |-> Nil, err |-> "net/http: invalid method " \o method]
    ELSE With(urlParse(urlStr), LAMBDA p :
         IF p.err # NoErr
         THEN [request |-> Nil, err |-> p.err]
         ELSE [request |-> Some([Method |-> IF method = "" THEN MethodGet ELSE method,
                                 URL |-> p.url, Body |-> body,
                                 Header |-> headerAdd(Header0, "Authorization", tokenStr)]),
               err |-> NoErr])

\* Faulty variant of requestWith: the signer's error is not checked.
requestWith_IgnoreSignError(t, method, urlStr, body) ==
    With(newRequest(method, urlStr, t.tokenStr, body), LAMBDA r :
        [request |-> r.request, err |-> r.err, signs |-> t.signs])

\* The tail of newReadRequest and newWriteRequest: "if err != nil { return nil,
\* err }", then newRequest with the token t.
requestWith(t, method, urlStr, body) ==
    IF t.err # NoErr
    THEN [request |-> Nil, err |-> t.err, signs |-> t.signs]
    ELSE With(newRequest(method, urlStr, t.tokenStr, body), LAMBDA r :
         [request |-> r.request, err |-> r.err, signs |-> t.signs])

\* Agent.newReadRequest(method, urlStr).
newReadRequest(cfg, signer, now, method, urlStr) ==
    requestWith(generateReadTokenStr(cfg, signer, now), method, urlStr, Nil)

\* Agent.newWriteRequest(method, urlStr, body).
newWriteRequest(cfg, signer, now, method, urlStr, body) ==
    requestWith(generateWriteTokenStr(cfg, signer, now), method, urlStr, body)

\* Faulty variant of NewRequest: the method is compared ignoring case.
NewRequest_FoldCase(cfg, signer, now, method, urlStr, body) ==
    IF urlStr = <<>>
    THEN [request |-> Nil, err |-> errMissingRequestURL, signs |-> <<>>]
    ELSE IF method = ""
    THEN [request |-> Nil, err |-> errMissingRequestMethod, signs |-> <<>>]
    ELSE IF method \in {MethodGet, "get"}
    THEN newReadRequest(cfg, signer, now, method, urlStr)
    ELSE newWriteRequest(cfg, signer, now, method, urlStr, body)

\* Faulty variant of NewRequest: the method is checked before the URL.
NewRequest_MethodFirst(cfg, signer, now, method, urlStr, body) ==
    IF method = ""
    THEN [request |-> Nil, err |-> errMissingRequestMethod, signs |-> <<>>]
    ELSE IF urlStr = <<>>
    THEN [request |-> Nil, err |-> errMissingRequestURL, signs |-> <<>>]
    ELSE IF method = MethodGet
    THEN newReadRequest(cfg, signer, now, method, urlStr)
    ELSE newWriteRequest(cfg, signer, now, method, urlStr, body)

\* Agent.NewRequest(method, urlStr, body).
NewRequest(cfg, signer, now, method, urlStr, body) ==
    IF urlStr = <<>>
    THEN [request |-> Nil, err |-> errMissingRequestURL, signs |-> <<>>]
    ELSE IF method = ""
    THEN [request |-> Nil, err |-> errMissingRequestMethod, signs |-> <<>>]
    ELSE IF method = MethodGet
    THEN newReadRequest(cfg, signer, now, method, urlStr)
    ELSE newWriteRequest(cfg, signer, now, method, urlStr, body)

(***************************************************************************)
(* The transport.  httpClient.Do(request) answers with what the remote end *)
(* decides: a failure, or a status line and a body.                        *)
(***************************************************************************)
httpDo(request, outcome) ==
    IF outcome.err # NoErr
    THEN [response |-> Nil, err |-> outcome.err]
    ELSE [response |-> Some([StatusCode |-> outcome.StatusCode, Status |-> outcome.Status,
                             Body |-> outcome.Body, Request |-> request]),
          err |-> NoErr]

\* Faulty variant of doRequest: an answer with a status outside [200, 300) is
\* turned into an error.
doRequest_CheckStatus(r, request, outcome) ==
    IF r.err # NoErr
    THEN [response |-> Nil, err |-> r.err, signs |-> r.signs, sent |-> <<>>]
    ELSE With(httpDo(request, outcome), LAMBDA d :
         IF d.err = NoErr /\ ~(d.response[1].StatusCode >= 200 /\ d.response[1].StatusCode < 300)
         THEN [response |-> Nil, err |-> "postgrest error: " \o d.response[1].Status,
               signs |-> r.signs, sent |-> <<request>>]
         ELSE [response |-> d.response, err |-> d.err, signs |-> r.signs,
               sent |-> <<request>>])

\* Faulty variant of doRequest: a failure of the transport is wrapped in an
\* error of the package.
doRequest_WrapError(r, request, outcome) ==
    IF r.err # NoErr
    THEN [response |-> Nil, err |-> r.err, signs |-> r.signs, sent |-> <<>>]
    ELSE With(httpDo(request, outcome), LAMBDA d :
         [response |-> d.response,
          err |-> IF d.err # NoErr THEN "postgrest error: " \o d.err ELSE NoErr,
          signs |-> r.signs, sent |-> <<request>>])

\* Faulty variant of doRequest: a request the transport failed on is sent a
\* second time.
doRequest_Retry(r, request, outcome) ==
    IF r.err # NoErr
    THEN [response |-> Nil, err |-> r.err, signs |-> r.signs, sent |-> <<>>]
    ELSE With(httpDo(request, outcome), LAMBDA d :
         [response |-> d.response, err |-> d.err, signs |-> r.signs,
          sent |-> IF d.err # NoErr THEN <<request, request>> ELSE <<request>>])

\* "return agent.httpClient.Do(request)" for the request built in r, unless
\* building it failed.
doRequest(r, request, outcome) ==
    IF r.err # NoErr
    THEN [response |-> Nil, err |-> r.err, signs |-> r.signs, sent |-> <<>>]
    ELSE With(httpDo(request, outcome), LAMBDA d :
         [response |-> d.response, err |-> d.err, signs |-> r.signs, sent |-> <<request>>])

\* Agent.sendRequest(method, urlStr, body): (*http.Response, error).
sendRequest(cfg, signer, now, method, urlStr, body, outcome) ==
    With(NewRequest(cfg, signer, now, method, urlStr, body), LAMBDA r :
        doRequest(r, IF r.request = Nil THEN Nil ELSE r.request[1], outcome))

\* Faulty variant of isSuccess: 300 counts as success.
isSuccess_Inclusive(httpStatusCode) == httpStatusCode >= 200 /\ httpStatusCode <= 300

\* isSuccess(httpStatusCode).
isSuccess(httpStatusCode) == httpStatusCode >= 200 /\ httpStatusCode < 300

(***************************************************************************)
(* encoding/json, on bodies spelt as sequences of characters (an object    *)
(* key with its quotes is one element).  A JSON value is [kind, val]: val  *)
(* is a number for the scalars (1 and 0 for true and false) and, for an    *)
(* object, the function from its keys to their numbers, as a Go            *)
(* map[string]int holds it.  A decode target is the kind of Go value the   *)
(* caller handed in and the JSON value it holds.                           *)
(***************************************************************************)
DigitChars == <<"0", "1", "2", "3", "4", "5", "6", "7", "8", "9">>
Space == {" ", "\n"}
Chars(word) ==
    CASE word = "true"  -> <<"t", "r", "u", "e">>
      [] word = "false" -> <<"f", "a", "l", "s", "e">>
      [] word = "null"  -> <<"n", "u", "l", "l">>

RECURSIVE Digits(_)
Digits(n) == IF n < 10 THEN <<DigitChars[n + 1]>>
             ELSE Append(Digits(n \div 10), DigitChars[(n % 10) + 1])

RECURSIVE skipSpace(_)
skipSpace(s) == IF s # <<>> /\ s[1] \in Space THEN skipSpace(Tail(s)) ELSE s

\* What may follow a complete top-level value: nothing, or white space.
endTop(s, i, v) ==
    IF i > Len(s) \/ s[i] \in Space
    THEN [err |-> NoErr, value |-> v]
    ELSE [err |-> "invalid character '" \o s[i] \o "' after top-level value", value |-> v]

RECURSIVE scanLiteral(_, _, _, _)
scanLiteral(s, word, i, v) ==
    IF i > Len(Chars(word)) THEN endTop(s, i, v)
    ELSE IF i > Len(s) THEN [err |-> "unexpected EOF", value |-> v]
    ELSE IF s[i] # Chars(word)[i]
    THEN [err |-> "invalid character '" \o s[i] \o "' in literal " \o word
                  \o " (expecting '" \o Chars(word)[i] \o "')", value |-> v]
    ELSE scanLiteral(s, word, i + 1, v)

RECURSIVE scanNumber(_, _, _)
scanNumber(s, i, n) ==
    IF i <= Len(s) /\ IndexOf(DigitChars, s[i]) # 0
    THEN scanNumber(s, i + 1, 10 * n + (IndexOf(DigitChars, s[i]) - 1))
    ELSE endTop(s, i, [kind |-> "number", val |-> n])

JSONNull == [kind |-> "null", val |-> 0]
JSONBool(b) == [kind |-> "bool", val |-> b]
JSONObject(m) == [kind |-> "object", val |-> m]

\* The keys of the maps, in the order the encoder writes them (sorted).
MapKeys == <<"a", "b">>
EmptyMap == [k \in {} |-> 0]
quoted(k) == "\"" \o k \o "\""
KeyTokens == {quoted(MapKeys[i]) : i \in 1..Len(MapKeys)}
keyOf(token) == CHOOSE k \in {MapKeys[i] : i \in 1..Len(MapKeys)} : quoted(k) = token

RECURSIVE skipTo(_, _)
skipTo(s, i) == IF i <= Len(s) /\ s[i] \in Space THEN skipTo(s, i + 1) ELSE i

RECURSIVE memberNumber(_, _, _)
memberNumber(s, i, n) ==
    IF i <= Len(s) /\ IndexOf(DigitChars, s[i]) # 0
    THEN memberNumber(s, i + 1, 10 * n + (IndexOf(DigitChars, s[i]) - 1))
    ELSE [next |-> i, n |-> n]

\* The scanner inside an object whose members so far are m: at a key (or,
\* when first, at the closing brace), after a key, at a member's value (a
\* number), and after a member.
RECURSIVE scanObject(_, _, _, _)
scanNext(s, i, m) ==
    With(skipTo(s, i), LAMBDA j :
        IF j > Len(s) THEN [err |-> "unexpected EOF", value |-> JSONNull]
        ELSE IF s[j] = "," THEN scanObject(s, j + 1, m, FALSE)
        ELSE IF s[j] = "}" THEN endTop(s, j + 1, JSONObject(m))
        ELSE [err |-> "invalid character '" \o s[j] \o "' after object key:value pair",
              value |-> JSONNull])

scanMember(s, j, m, k) ==
    IF j > Len(s) THEN [err |-> "unexpected EOF", value |-> JSONNull]
    ELSE IF s[j] = "0" THEN scanNext(s, j + 1, (k :> 0) @@ m)
    ELSE IF IndexOf(DigitChars, s[j]) # 0
    THEN With(memberNumber(s, j, 0), LAMBDA r : scanNext(s, r.next, (k :> r.n) @@ m))
    ELSE [err |-> "invalid character '" \o s[j] \o "' looking for beginning of value",
          value |-> JSONNull]

scanColon(s, i, m, k) ==
    With(skipTo(s, i), LAMBDA j :
        IF j > Len(s) THEN [err |-> "unexpected EOF", value |-> JSONNull]
        ELSE IF s[j] # ":"
        THEN [err |-> "invalid character '" \o s[j] \o "' after object key",
              value |-> JSONNull]
        ELSE scanMember(s, skipTo(s, j + 1), m, k))

scanObject(s, i, m, first) ==
    With(skipTo(s, i), LAMBDA j :
        IF j > Len(s) THEN [err |-> "unexpected EOF", value |-> JSONNull]
        ELSE IF s[j] = "}" /\ first THEN endTop(s, j + 1, JSONObject(m))
        ELSE IF s[j] \notin KeyTokens
        THEN [err |-> "invalid character '" \o s[j]
                      \o "' looking for beginning of object key string",
              value |-> JSONNull]
        ELSE scanColon(s, j + 1, m, keyOf(s[j])))

\* The literal a value starting with character c must spell, if any.
literalOf(c) == CASE c = "t" -> "true" [] c = "f" -> "false" [] c = "n" -> "null"
                  [] OTHER -> ""
literalValue(c) == CASE c = "t" -> JSONBool(1) [] c = "f" -> JSONBool(0) [] OTHER -> JSONNull

\* The scanner on a body without leading white space.
scanFrom(s) ==
    IF s = <<>> THEN [err |-> "EOF", value |-> JSONNull]
    ELSE IF literalOf(s[1]) # "" THEN scanLiteral(s, literalOf(s[1]), 2, literalValue(s[1]))
    ELSE IF s[1] = "0" THEN endTop(s, 2, [kind |-> "number", val |-> 0])
    ELSE IF IndexOf(DigitChars, s[1]) # 0 THEN scanNumber(s, 1, 0)
    ELSE IF s[1] = "{" THEN scanObject(s, 2, EmptyMap, TRUE)
    ELSE [err |-> "invalid character '" \o s[1] \o "' looking for beginning of value",
          value |-> JSONNull]

\* The decoder's scanner: the first JSON value of the body, or a syntax error.
scanValue(body) == scanFrom(skipSpace(body))

\* The name of the Go type of a target of the kind.
goType(kind) == IF kind = "object" THEN "map[string]int" ELSE kind

\* The entries of the map a target of kind "object" holds (none for a nil map).
entries(target) == IF target.val.kind = "object" THEN target.val.val ELSE EmptyMap

\* Faulty variant of unmarshalValue: a map is emptied before an object is
\* decoded into it.
unmarshalValue_Replace(v, target) ==
    IF target.kind = "func"
    THEN [target |-> target, err |-> "json: Unmarshal(non-pointer func())"]
    ELSE IF v.kind = "null"
    THEN [target |-> IF target.kind \in {"any", "object"}
                     THEN [target EXCEPT !.val = JSONNull] ELSE target,
          err |-> NoErr]
    ELSE IF target.kind = "any" \/ target.kind = v.kind
    THEN [target |-> [target EXCEPT !.val = v], err |-> NoErr]
    ELSE [target |-> target,
          err |-> "json: cannot unmarshal " \o v.kind \o " into Go value of type "
                  \o goType(target.kind)]

\* (*decodeState).unmarshal(target) of the scanned value v: null sets an
\* interface or a map to nil and leaves other targets alone; an object is
\* decoded into the map the target already holds, keeping the entries
\* whose keys the object does not have.
unmarshalValue(v, target) ==
    IF target.kind = "func"
    THEN [target |-> target, err |-> "json: Unmarshal(non-pointer func())"]
    ELSE IF v.kind = "null"
    THEN [target |-> IF target.kind \in {"any", "object"}
                     THEN [target EXCEPT !.val = JSONNull] ELSE target,
          err |-> NoErr]
    ELSE IF target.kind = "object" /\ v.kind = "object"
    THEN [target |-> [target EXCEPT !.val = JSONObject(v.val @@ entries(target))],
          err |-> NoErr]
    ELSE IF target.kind = "any" \/ target.kind = v.kind
    THEN [target |-> [target EXCEPT !.val = v], err |-> NoErr]
    ELSE [target |-> target,
          err |-> "json: cannot unmarshal " \o v.kind \o " into Go value of type "
                  \o goType(target.kind)]

\* json.NewDecoder(body).Decode(target): the target afterwards, and the error.
jsonDecode(body, target) ==
    With(scanValue(body), LAMBDA sc :
        IF sc.err # NoErr THEN [target |-> target, err |-> sc.err]
        ELSE unmarshalValue(sc.value, target))

\* The members of map m from the i-th key on, each after the separator sep.
RECURSIVE membersFrom(_, _, _)
membersFrom(m, i, sep) ==
    IF i > Len(MapKeys) THEN <<>>
    ELSE IF MapKeys[i] \in DOMAIN m
    THEN sep \o <<quoted(MapKeys[i]), ":">> \o Digits(m[MapKeys[i]])
             \o membersFrom(m, i + 1, <<",">>)
    ELSE membersFrom(m, i + 1, sep)

\* jsonEncode(payload): (io.Reader, error).
jsonEncode(payload) ==
    CASE payload.kind = "bool" ->
           [body |-> Chars(IF payload.val = 1 THEN "true" ELSE "false") \o <<"\n">>,
            err |-> NoErr]
      [] payload.kind = "number" -> [body |-> Digits(payload.val) \o <<"\n">>, err |-> NoErr]
      [] payload.kind = "null" -> [body |-> Chars("null") \o <<"\n">>, err |-> NoErr]
      [] payload.kind = "object" ->
           [body |-> <<"{">> \o membersFrom(payload.val, 1, <<>>) \o <<"}", "\n">>,
            err |-> NoErr]
      [] OTHER -> [body |-> <<>>, err |-> "json: unsupported type: func()"]

\* Faulty variant of unmarshalResponse: a nil target returns before the status
\* code is looked at.
unmarshalResponse_TargetFirst(response, target) ==
    IF target = Nil
    THEN [status |-> response.StatusCode, err |-> NoErr, target |-> target,
          closes |-> 1, decodes |-> 0]
    ELSE IF ~isSuccess(response.StatusCode)
    THEN [status |-> response.StatusCode,
          err |-> "postgrest error (" \o response.Request.Method \o " "
                  \o Flatten(urlString(response.Request.URL)) \o "): " \o response.Status,
          target |-> target, closes |-> 1, decodes |-> 0]
    ELSE With(jsonDecode(response.Body, target[1]), LAMBDA d :
         IF d.err # NoErr
         THEN [status |-> StatusInternalServerError, err |-> d.err,
               target |-> Some(d.target), closes |-> 1, decodes |-> 1]
         ELSE [status |-> response.StatusCode, err |-> NoErr,
               target |-> Some(d.target), closes |-> 1, decodes |-> 1])

\* Faulty variant of unmarshalResponse: a decode failure keeps the response's
\* status code.
unmarshalResponse_KeepStatus(response, target) ==
    IF ~isSuccess(response.StatusCode)
    THEN [status |-> response.StatusCode,
          err |-> "postgrest error (" \o response.Request.Method \o " "
                  \o Flatten(urlString(response.Request.URL)) \o "): " \o response.Status,
          target |-> target, closes |-> 1, decodes |-> 0]
    ELSE IF target = Nil
    THEN [status |-> response.StatusCode, err |-> NoErr, target |-> target,
          closes |-> 1, decodes |-> 0]
    ELSE With(jsonDecode(response.Body, target[1]), LAMBDA d :
         [status |-> response.StatusCode, err |-> d.err,
          target |-> Some(d.target), closes |-> 1, decodes |-> 1])

\* Faulty variant of unmarshalResponse: without a target the body is decoded
\* all the same, into a value that is thrown away.
unmarshalResponse_DecodeAlways(response, target) ==
    IF ~isSuccess(response.StatusCode)
    THEN [status |-> response.StatusCode,
          err |-> "postgrest error (" \o response.Request.Method \o " "
                  \o Flatten(urlString(response.Request.URL)) \o "): " \o response.Status,
          target |-> target, closes |-> 1, decodes |-> 0]
    ELSE With(jsonDecode(response.Body,
                         IF target = Nil THEN [kind |-> "any", val |-> JSONNull]
                         ELSE target[1]), LAMBDA d :
         IF d.err # NoErr
         THEN [status |-> StatusInternalServerError, err |-> d.err,
               target |-> IF target = Nil THEN Nil ELSE Some(d.target),
               closes |-> 1, decodes |-> 1]
         ELSE [status |-> response.StatusCode, err |-> NoErr,
               target |-> IF target = Nil THEN Nil ELSE Some(d.target),
               closes |-> 1, decodes |-> 1])

\* Faulty variant of unmarshalResponse: the body is closed after decoding
\* instead of by a deferred call, so the early returns leave it open.
unmarshalResponse_CloseAfterDecode(response, target) ==
    IF ~isSuccess(response.StatusCode)
    THEN [status |-> response.StatusCode,
          err |-> "postgrest error (" \o response.Request.Method \o " "
                  \o Flatten(urlString(response.Request.URL)) \o "): " \o response.Status,
          target |-> target, closes |-> 0, decodes |-> 0]
    ELSE IF target = Nil
    THEN [status |-> response.StatusCode, err |-> NoErr, target |-> target,
          closes |-> 0, decodes |-> 0]
    ELSE With(jsonDecode(response.Body, target[1]), LAMBDA d :
         IF d.err # NoErr
         THEN [status |-> StatusInternalServerError, err |-> d.err,
               target |-> Some(d.target), closes |-> 1, decodes |-> 1]
         ELSE [status |-> response.StatusCode, err |-> NoErr,
               target |-> Some(d.target), closes |-> 1, decodes |-> 1])

\* unmarshalResponse(response, target): (int, error); closes and decodes count
\* the calls of response.Body.Close and of Decode it made.
unmarshalResponse(response, target) ==
    IF ~isSuccess(response.StatusCode)
    THEN [status |-> response.StatusCode,
          err |-> "postgrest error (" \o response.Request.Method \o " "
                  \o Flatten(urlString(response.Request.URL)) \o "): " \o response.Status,
          target |-> target, closes |-> 1, decodes |-> 0]
    ELSE IF target = Nil
    THEN [status |-> response.StatusCode, err |-> NoErr, target |-> target,
          closes |-> 1, decodes |-> 0]
    ELSE With(jsonDecode(response.Body, target[1]), LAMBDA d :
         IF d.err # NoErr
         THEN [status |-> StatusInternalServerError, err |-> d.err,
               target |-> Some(d.target), closes |-> 1, decodes |-> 1]
         ELSE [status |-> response.StatusCode, err |-> NoErr,
               target |-> Some(d.target), closes |-> 1, decodes |-> 1])

(***************************************************************************)
(* The Agent's operations.  Each yields what the Go method returns,        *)
(* together with the signer invocations (signs) and the requests handed    *)
(* to the transport (sent) it made on the way.                             *)
(***************************************************************************)
Failed(err) == [response |-> Nil, err |-> err, signs |-> <<>>, sent |-> <<>>]

\* Faulty variant of Get: the URL is built from the primary base address.
Get_FromMaster(cfg, signer, now, table, query, outcome) ==
    With(buildURLStr(cfg.MasterBaseURL, table, query), LAMBDA u :
        IF u.err # NoErr THEN Failed(u.err)
        ELSE sendRequest(cfg, signer, now, MethodGet, u.str, Nil, outcome))

\* Agent.Get(table, query).
Get(cfg, signer, now, table, query, outcome) ==
    With(buildURLStr(cfg.SlaveBaseURL, table, query), LAMBDA u :
        IF u.err # NoErr THEN Failed(u.err)
        ELSE sendRequest(cfg, signer, now, MethodGet, u.str, Nil, outcome))

\* Agent.Post(table, body).
Post(cfg, signer, now, table, body, outcome) ==
    With(buildURLStr(cfg.MasterBaseURL, table, Nil), LAMBDA u :
        IF u.err # NoErr THEN Failed(u.err)
        ELSE sendRequest(cfg, signer, now, MethodPost, u.str, body, outcome))

\* request.Header.Add("Prefer", "return=representation") on the request built in r.
preferRepresentation(r) ==
    IF r.request = Nil THEN Nil
    ELSE [r.request[1] EXCEPT !.Header = headerAdd(@, "Prefer", "return=representation")]

\* Agent.PostAndReturn(table, body).
PostAndReturn(cfg, signer, now, table, body, outcome) ==
    With(buildURLStr(cfg.MasterBaseURL, table, Nil), LAMBDA u :
        IF u.err # NoErr THEN Failed(u.err)
        ELSE With(NewRequest(cfg, signer, now, MethodPost, u.str, body), LAMBDA r :
             doRequest(r, preferRepresentation(r), outcome)))

\* Agent.Patch(table, query, body).
Patch(cfg, signer, now, table, query, body, outcome) ==
    With(buildURLStr(cfg.MasterBaseURL, table, query), LAMBDA u :
        IF u.err # NoErr THEN Failed(u.err)
        ELSE sendRequest(cfg, signer, now, MethodPatch, u.str, body, outcome))

\* Agent.Delete(table, query).
Delete(cfg, signer, now, table, query, outcome) ==
    With(buildURLStr(cfg.MasterBaseURL, table, query), LAMBDA u :
        IF u.err # NoErr THEN Failed(u.err)
        ELSE sendRequest(cfg, signer, now, MethodDelete, u.str, Nil, outcome))

\* The tail shared by the JSON variants: "if err != nil { return 0, err }",
\* then unmarshalResponse(response, target).
normalise(r, target) ==
    IF r.err # NoErr
    THEN [status |-> 0, err |-> r.err, target |-> target, closes |-> 0, decodes |-> 0,
          signs |-> r.signs, sent |-> r.sent]
    ELSE With(unmarshalResponse(r.response[1], target), LAMBDA n :
         [status |-> n.status, err |-> n.err, target |-> n.target, closes |-> n.closes,
          decodes |-> n.decodes, signs |-> r.signs, sent |-> r.sent])

\* Agent.GetJSON(table, query, target).
GetJSON(cfg, signer, now, table, query, target, outcome) ==
    normalise(Get(cfg, signer, now, table, query, outcome), target)

\* Faulty variant of PostJSON: PostAndReturn is used whatever the target.
PostJSON_AlwaysReturn(cfg, signer, now, table, payload, target, outcome) ==
    With(jsonEncode(payload), LAMBDA e :
        normalise(IF e.err # NoErr THEN Failed(e.err)
                  ELSE PostAndReturn(cfg, signer, now, table, Some(e.body), outcome),
                  target))

\* Agent.PostJSON(table, payload, target).
PostJSON(cfg, signer, now, table, payload, target, outcome) ==
    With(jsonEncode(payload), LAMBDA e :
        normalise(IF e.err # NoErr THEN Failed(e.err)
                  ELSE IF target = Nil
                  THEN Post(cfg, signer, now, table, Some(e.body), outcome)
                  ELSE PostAndReturn(cfg, signer, now, table, Some(e.body), outcome),
                  target))

\* Agent.PatchJSON(table, query, payload).
PatchJSON(cfg, signer, now, table, query, payload, outcome) ==
    With(jsonEncode(payload), LAMBDA e :
        normalise(IF e.err # NoErr THEN Failed(e.err)
                  ELSE Patch(cfg, signer, now, table, query, Some(e.body), outcome),
                  Nil))

\* Agent.DeleteJSON(table, query).
DeleteJSON(cfg, signer, now, table, query, outcome) ==
    normalise(Delete(cfg, signer, now, table, query, outcome), Nil)

\* Faulty variant of pingURLs: the replica is probed first.
pingURLs_SlaveFirst(cfg) == <<[name |-> "slave", url |-> cfg.SlaveBaseURL],
                              [name |-> "master", url |-> cfg.MasterBaseURL]>>

\* The two endpoints Ping probes, in order.
pingURLs(cfg) == <<[name |-> "master", url |-> cfg.MasterBaseURL],
                   [name |-> "slave", url |-> cfg.SlaveBaseURL]>>

\* The body of Ping's loop after sendRequest answered r for endpoint url: the
\* error to return, or NoErr to go on.
probeError(url, r) ==
    IF r.err # NoErr THEN url.name \o " service error: " \o r.err
    ELSE IF ~isSuccess(r.response[1].StatusCode)
    THEN url.name \o " service error: " \o r.response[1].Status
    ELSE NoErr

RECURSIVE pingFrom(_, _, _, _, _, _)
\* The loop of Agent.Ping from its i-th endpoint on; nows[i] is time.Now() and
\* outcomes[i] the transport's answer during the i-th probe; done holds the
\* signer invocations and requests of the probes before.
pingFrom(cfg, signer, nows, outcomes, i, done) ==
    IF i > Len(pingURLs(cfg))
    THEN [err |-> NoErr, signs |-> done.signs, sent |-> done.sent, closes |-> 0]
    ELSE With(sendRequest(cfg, signer, nows[i], MethodGet, pingURLs(cfg)[i].url, Nil,
                          outcomes[i]), LAMBDA r :
         With(probeError(pingURLs(cfg)[i], r), LAMBDA err :
              IF err # NoErr
              THEN [err |-> err, signs |-> done.signs \o r.signs,
                    sent |-> done.sent \o r.sent, closes |-> 0]
              ELSE pingFrom(cfg, signer, nows, outcomes, i + 1,
                            [signs |-> done.signs \o r.signs,
                             sent |-> done.sent \o r.sent])))

\* Agent.Ping().
Ping(cfg, signer, nows, outcomes) ==
    pingFrom(cfg, signer, nows, outcomes, 1, [signs |-> <<>>, sent |-> <<>>])

(***************************************************************************)
(* Construction: validateConfig and NewAgent; Claims.Valid.                *)
(***************************************************************************)
\* The fields of Config in declaration order, with the type reflect reports
\* and whether the field carries the tag required:"true".
ConfigFields ==
    <<[Name |-> "Issuer", Type |-> "string", required |-> FALSE],
      [Name |-> "MasterBaseURL", Type |-> "string", required |-> TRUE],
      [Name |-> "MasterRole", Type |-> "string", required |-> TRUE],
      [Name |-> "MasterSecret", Type |-> "string", required |-> TRUE],
      [Name |-> "SlaveBaseURL", Type |-> "string", required |-> TRUE],
      [Name |-> "SlaveRole", Type |-> "string", required |-> TRUE],
      [Name |-> "SlaveSecret", Type |-> "string", required |-> TRUE],
      [Name |-> "Timeout", Type |-> "time.Duration", required |-> TRUE]>>

\* fieldValue.String() of a string field: base addresses are token sequences.
fieldString(cfg, name) ==
    IF name \in {"MasterBaseURL", "SlaveBaseURL"} THEN Flatten(cfg[name]) ELSE cfg[name]

\* One round of validateConfig's loop: what field f appends to invalidFields.
invalidNames(cfg, f) ==
    IF ~f.required THEN <<>>
    ELSE (IF f.Type = "string" /\ fieldString(cfg, f.Name) = "" THEN <<f.Name>> ELSE <<>>)
         \o (IF f.Type = "time.Duration" /\ lessOrEqual(cfg[f.Name], Int64(0))
             THEN <<f.Name>> ELSE <<>>)

RECURSIVE invalidFrom(_, _)
\* validateConfig's loop from field i on.
invalidFrom(cfg, i) ==
    IF i > Len(ConfigFields) THEN <<>>
    ELSE invalidNames(cfg, ConfigFields[i]) \o invalidFrom(cfg, i + 1)

RECURSIVE stringsJoin(_, _)
\* strings.Join(elems, sep).
stringsJoin(elems, sep) ==
    IF elems = <<>> THEN ""
    ELSE IF Len(elems) = 1 THEN elems[1]
    ELSE elems[1] \o sep \o stringsJoin(Tail(elems), sep)

\* The error validateConfig formats from invalidFields, nil when nothing was
\* appended.
invalidConfigError(invalidFields) ==
    [err |-> IF invalidFields # <<>>
             THEN "postgrest error: invalid config parameters: \n- "
                      \o stringsJoin(invalidFields, "\n- ")
             ELSE NoErr,
     invalidFields |-> invalidFields]

\* Faulty variant of validateConfig: only the first invalid field is reported.
validateConfig_FirstOnly(cfg) ==
    invalidConfigError(With(invalidFrom(cfg, 1), LAMBDA inv :
                           IF inv = <<>> THEN inv ELSE <<inv[1]>>))

\* validateConfig(config): the error, and the invalidFields it was built from.
validateConfig(cfg) == invalidConfigError(invalidFrom(cfg, 1))

\* The tail of NewAgent: "if err != nil { return nil, err }", then the Agent.
agentOrError(v, cfg, httpClient, jwtGenerator) ==
    IF v.err # NoErr
    THEN [agent |-> Nil, err |-> v.err, invalidFields |-> v.invalidFields]
    ELSE [agent |-> Some([config |-> cfg, httpClient |-> httpClient,
                          generateJWT |-> jwtGenerator]),
          err |-> NoErr, invalidFields |-> v.invalidFields]

\* Faulty variant of NewAgent: the config is validated, when there is one,
\* before the transport and the signer are looked at.
NewAgent_ValidateFirst(cfg, httpClient, jwtGenerator) ==
    IF cfg = Nil
    THEN [agent |-> Nil, err |-> errMissingConfigParams, invalidFields |-> <<>>]
    ELSE IF validateConfig(cfg[1]).err # NoErr
    THEN agentOrError(validateConfig(cfg[1]), cfg[1], Nil, Nil)
    ELSE IF httpClient = Nil
    THEN [agent |-> Nil, err |-> errMissingHTTPClient, invalidFields |-> <<>>]
    ELSE IF jwtGenerator = Nil
    THEN [agent |-> Nil, err |-> errMissingJWTGenerator, invalidFields |-> <<>>]
    ELSE agentOrError(validateConfig(cfg[1]), cfg[1], httpClient[1], jwtGenerator[1])

\* NewAgent(config, httpClient, jwtGenerator): (*Agent, error).
NewAgent(cfg, httpClient, jwtGenerator) ==
    IF cfg = Nil
    THEN [agent |-> Nil, err |-> errMissingConfigParams, invalidFields |-> <<>>]
    ELSE IF httpClient = Nil
    THEN [agent |-> Nil, err |-> errMissingHTTPClient, invalidFields |-> <<>>]
    ELSE IF jwtGenerator = Nil
    THEN [agent |-> Nil, err |-> errMissingJWTGenerator, invalidFields |-> <<>>]
    ELSE agentOrError(validateConfig(cfg[1]), cfg[1], httpClient[1], jwtGenerator[1])

\* Faulty variant of Valid: a claim expiring at the current second is valid.
Valid_Strict(c, now) ==
    IF c.Role = "" THEN errMissingRoleClaim
    ELSE IF c.ExpiresAt # Int64(now) /\ lessOrEqual(c.ExpiresAt, Int64(now))
    THEN errInvalidExpiryClaim
    ELSE NoErr

\* Claims.Valid(), with time.Now().Unix() = now.
Valid(c, now) ==
    IF c.Role = "" THEN errMissingRoleClaim
    ELSE IF lessOrEqual(c.ExpiresAt, Int64(now)) THEN errInvalidExpiryClaim
    ELSE NoErr

(***************************************************************************)
(* Bounds and the inputs the callers and the environment choose from.      *)
(***************************************************************************)
MaxTime == 1
MaxTimeout == 2
MaxCode == 320

Times == 0..MaxTime
StatusCodes == (0 - 1)..MaxCode

HTTP(host) == <<"http", ":", "//", host>>
BadURL == <<":", "//", "xy", "/">>

\* The endpoints of a Config: primary and replica base address.
Endpoints ==
    {<<HTTP("m"), HTTP("s")>>,
     <<HTTP("m") \o <<"/", "old", "?", "x=1">>, <<"localhost", ":", "3000">>>>,
     <<BadURL, HTTP("s")>>,
     <<HTTP("m"), BadURL>>,
     <<BadURL, BadURL>>}

\* The Timeouts of a Config: a few seconds written as plain counts, which is
\* what generateClaims takes them to be, and thirty seconds written as the
\* Duration 30 * time.Second.
Timeouts == {Int64(t) : t \in 1..MaxTimeout} \cup {timesSecond(Int64(30))}

Configs ==
    {[Issuer |-> "test",
      MasterBaseURL |-> e[1], MasterRole |-> "masterRole", MasterSecret |-> "masterSecret",
      SlaveBaseURL |-> e[2], SlaveRole |-> "slaveRole", SlaveSecret |-> "slaveSecret",
      Timeout |-> t] : e \in Endpoints, t \in Timeouts}

Signers == {"sign", "fixed", "failing", "failingWithToken"}

Tables == {"", "test_table"}
Queries == {Nil, Some(<<>>), Some([id |-> "1"]), Some([error |-> "404", id |-> "1"])}
Methods == {"", MethodGet, "get", MethodPost, MethodPatch, MethodDelete, "BAD METHOD"}
URLStrs == {<<>>, HTTP("m") \o <<"/", "t">>, HTTP("s") \o <<"/", "t">>, BadURL}
ReqBodies == {Nil, Some(<<"7">>)}
Payloads == {[kind |-> "bool", val |-> 1], [kind |-> "number", val |-> 12],
             JSONNull, [kind |-> "func", val |-> 0], JSONObject("a" :> 1)}
Targets == {Nil, Some([kind |-> "any", val |-> JSONNull]),
            Some([kind |-> "bool", val |-> [kind |-> "bool", val |-> 0]]),
            Some([kind |-> "func", val |-> JSONNull]),
            Some([kind |-> "object", val |-> JSONObject(EmptyMap)]),
            Some([kind |-> "object", val |-> JSONObject("b" :> 2)])}

Answer(code, status, body) ==
    [err |-> NoErr, StatusCode |-> code, Status |-> status, Body |-> body]

\* What the transport may answer to one request.
Outcomes ==
    {[err |-> "dial tcp: connection refused", StatusCode |-> 0, Status |-> "", Body |-> <<>>],
     Answer(200, "200 OK", Chars("true")),
     Answer(200, "200 OK", <<"t", "e", "s", "t">>),
     Answer(201, "201 Created", <<"1", "2", "\n">>),
     Answer(299, "299 ", Chars("null")),
     Answer(199, "199 ", Chars("true")),
     Answer(300, "300 Multiple Choices", Chars("true")),
     Answer(404, "404 Not Found", <<"N", "o">>),
     Answer(200, "200 OK", Chars("true") \o <<"\n">>),
     Answer(201, "201 Created", <<"{", "\"a\"", ":", "1", "}", "\n">>)}

\* The Configs a caller may hand to NewAgent: each required field present or
\* missing, the Timeout negative, zero or positive.
NewAgentConfigs ==
    {[Issuer |-> i, MasterBaseURL |-> mb, MasterRole |-> mr, MasterSecret |-> ms,
      SlaveBaseURL |-> sb, SlaveRole |-> sr, SlaveSecret |-> ss, Timeout |-> t] :
        i \in {"", "test"}, mb \in {<<>>, HTTP("m")}, mr \in {"", "masterRole"},
        ms \in {"", "masterSecret"}, sb \in {<<>>, HTTP("s")}, sr \in {"", "slaveRole"},
        ss \in {"", "slaveSecret"}, t \in {Int64(0 - 1), Int64(0), Int64(1)}}

\* The Claims a caller may validate, at a time in Times.
ClaimsValues ==
    {[Role |-> r, Issuer |-> "test", ExpiresAt |-> Int64(e)] :
        r \in {"", "slaveRole"}, e \in 0..(MaxTime + MaxTimeout)}

\* The base addresses a caller may hand to buildURLStr.
BaseURLs ==
    {<<>>, HTTP("m"), HTTP("m") \o <<"/", "old", "?", "x=1">>, <<"/", "api">>,
     <<"localhost", ":", "3000">>, BadURL}

\* The responses a caller may hand to unmarshalResponse directly.
Responses ==
    {[StatusCode |-> o.StatusCode, Status |-> o.Status, Body |-> o.Body,
      Request |-> [Method |-> m, URL |-> urlParse(u).url, Body |-> Nil, Header |-> Header0]] :
        o \in {x \in Outcomes : x.err = NoErr}, m \in {"", MethodGet},
        u \in {<<>>, HTTP("m")}}

(***************************************************************************)
(* The state machine: a caller runs one operation to completion, then      *)
(* takes its result and is ready for the next.                             *)
(***************************************************************************)
Args0 == [now |-> 0, method |-> "", urlStr |-> <<>>, body |-> Nil, table |-> "", query |-> Nil,
          payload |-> JSONNull, target |-> Nil, code |-> 0, response |-> Nil,
          outcomes |-> <<>>, config |-> Nil, httpClient |-> Nil, jwtGenerator |-> Nil,
          claims |-> [Role |-> "", Issuer |-> "", ExpiresAt |-> Int64(0)]]

Ret0 == [request |-> Nil, response |-> Nil, status |-> 0, err |-> NoErr, target |-> Nil,
         closes |-> 0, decodes |-> 0, ok |-> FALSE, agent |-> Nil, invalidFields |-> <<>>,
         str |-> <<>>, again |-> [str |-> <<>>, err |-> NoErr]]

\* The callers that share one Agent in the concurrent runs.
Callers == {"A", "B"}

\* A caller's local variables before it calls: its position (pc), the
\* operation and its arguments, the locals of the methods on its stack
\* (urlStr, tokenStr, request), the times it read the clock, the answers it
\* got and the requests it handed to the transport.
Thread0 ==
    [pc |-> "idle", op |-> "none", table |-> "", query |-> Nil, body |-> Nil,
     method |-> "", probe |-> 0, urlStr |-> <<>>,
     tokenStr |-> [tokenStr |-> "", err |-> NoErr, signs |-> <<>>],
     request |-> Nil, err |-> NoErr, nows |-> <<>>, outcomes |-> <<>>, sent |-> <<>>,
     payload |-> JSONNull, target |-> Nil, response |-> Nil, status |-> 0]

\* The fields of Ret0 that the result r of an operation sets.
Returned(r) == [f \in DOMAIN Ret0 |-> IF f \in DOMAIN r THEN r[f] ELSE Ret0[f]]

\* Faulty variant of Finish: the operation leaves the Agent's Config with the
\* replica's address as the primary one.
Finish_Redirects(name, a, r) ==
    /\ pc' = "returned"
    /\ op' = name
    /\ args' = a
    /\ signs' = IF "signs" \in DOMAIN r THEN r.signs ELSE <<>>
    /\ sent' = IF "sent" \in DOMAIN r THEN r.sent ELSE <<>>
    /\ ret' = Returned(r)
    /\ config' = [config EXCEPT !.MasterBaseURL = config.SlaveBaseURL]
    /\ UNCHANGED <<generateJWT, threads>>

\* The caller has run operation name with arguments a, and it yielded r.
Finish(name, a, r) ==
    /\ pc' = "returned"
    /\ op' = name
    /\ args' = a
    /\ signs' = IF "signs" \in DOMAIN r THEN r.signs ELSE <<>>
    /\ sent' = IF "sent" \in DOMAIN r THEN r.sent ELSE <<>>
    /\ ret' = Returned(r)
    /\ UNCHANGED <<config, generateJWT, threads>>

Init ==
    /\ config \in Configs
    /\ generateJWT \in Signers
    /\ pc = "idle"
    /\ op = "none"
    /\ args = Args0
    /\ signs = <<>>
    /\ sent = <<>>
    /\ ret = Ret0
    /\ threads = [c \in Callers |-> Thread0]

CallNewRequest ==
    /\ pc = "idle"
    /\ \E now \in Times, method \in Methods, urlStr \in URLStrs, body \in ReqBodies :
           Finish("NewRequest",
                [Args0 EXCEPT !.now = now, !.method = method, !.urlStr = urlStr, !.body = body],
                NewRequest(config, generateJWT, now, method, urlStr, body))

CallPing ==
    /\ pc = "idle"
    /\ \E t1 \in Times, t2 \in Times, o1 \in Outcomes, o2 \in Outcomes :
           /\ t1 <= t2
           /\ Finish("Ping", [Args0 EXCEPT !.now = t1, !.outcomes = <<o1, o2>>],
                   Ping(config, generateJWT, <<t1, t2>>, <<o1, o2>>))

CallGet ==
    /\ pc = "idle"
    /\ \E now \in Times, table \in Tables, query \in Queries, o \in Outcomes :
           Finish("Get",
                [Args0 EXCEPT !.now = now, !.table = table, !.query = query, !.outcomes = <<o>>],
                Get(config, generateJWT, now, table, query, o))

CallGetJSON ==
    /\ pc = "idle"
    /\ \E now \in Times, table \in Tables, query \in Queries, target \in Targets, o \in Outcomes :
           Finish("GetJSON",
                [Args0 EXCEPT !.now = now, !.table = table, !.query = query, !.target = target,
                              !.outcomes = <<o>>],
                GetJSON(config, generateJWT, now, table, query, target, o))

CallPost ==
    /\ pc = "idle"
    /\ \E now \in Times, table \in Tables, body \in ReqBodies, o \in Outcomes :
           Finish("Post",
                [Args0 EXCEPT !.now = now, !.table = table, !.body = body, !.outcomes = <<o>>],
                Post(config, generateJWT, now, table, body, o))

CallPostJSON ==
    /\ pc = "idle"
    /\ \E now \in Times, table \in Tables, payload \in Payloads, target \in Targets,
          o \in Outcomes :
           Finish("PostJSON",
                [Args0 EXCEPT !.now = now, !.table = table, !.payload = payload,
                              !.target = target, !.outcomes = <<o>>],
                PostJSON(config, generateJWT, now, table, payload, target, o))

CallPostAndReturn ==
    /\ pc = "idle"
    /\ \E now \in Times, table \in Tables, body \in ReqBodies, o \in Outcomes :
           Finish("PostAndReturn",
                [Args0 EXCEPT !.now = now, !.table = table, !.body = body, !.outcomes = <<o>>],
                PostAndReturn(config, generateJWT, now, table, body, o))

CallPatch ==
    /\ pc = "idle"
    /\ \E now \in Times, table \in Tables, query \in Queries, body \in ReqBodies,
          o \in Outcomes :
           Finish("Patch",
                [Args0 EXCEPT !.now = now, !.table = table, !.query = query, !.body = body,
                              !.outcomes = <<o>>],
                Patch(config, generateJWT, now, table, query, body, o))

CallPatchJSON ==
    /\ pc = "idle"
    /\ \E now \in Times, table \in Tables, query \in Queries, payload \in Payloads,
          o \in Outcomes :
           Finish("PatchJSON",
                [Args0 EXCEPT !.now = now, !.table = table, !.query = query,
                              !.payload = payload, !.outcomes = <<o>>],
                PatchJSON(config, generateJWT, now, table, query, payload, o))

CallDelete ==
    /\ pc = "idle"
    /\ \E now \in Times, table \in Tables, query \in Queries, o \in Outcomes :
           Finish("Delete",
                [Args0 EXCEPT !.now = now, !.table = table, !.query = query, !.outcomes = <<o>>],
                Delete(config, generateJWT, now, table, query, o))

CallDeleteJSON ==
    /\ pc = "idle"
    /\ \E now \in Times, table \in Tables, query \in Queries, o \in Outcomes :
           Finish("DeleteJSON",
                [Args0 EXCEPT !.now = now, !.table = table, !.query = query, !.outcomes = <<o>>],
                DeleteJSON(config, generateJWT, now, table, query, o))

CallIsSuccess ==
    /\ pc = "idle"
    /\ \E code \in StatusCodes :
           Finish("isSuccess", [Args0 EXCEPT !.code = code], [ok |-> isSuccess(code)])

CallUnmarshalResponse ==
    /\ pc = "idle"
    /\ \E response \in Responses, target \in Targets :
           Finish("unmarshalResponse",
                [Args0 EXCEPT !.response = Some(response), !.target = target],
                unmarshalResponse(response, target))

CallNewAgent ==
    /\ pc = "idle"
    /\ \E cfg \in {Nil} \cup {Some(c) : c \in NewAgentConfigs},
          httpClient \in {Nil, Some("client")}, jwtGenerator \in {Nil, Some("sign")} :
           Finish("NewAgent",
                [Args0 EXCEPT !.config = cfg, !.httpClient = httpClient,
                              !.jwtGenerator = jwtGenerator],
                NewAgent(cfg, httpClient, jwtGenerator))

CallValid ==
    /\ pc = "idle"
    /\ \E c \in ClaimsValues, now \in Times :
           Finish("Valid", [Args0 EXCEPT !.claims = c, !.now = now], [err |-> Valid(c, now)])

\* buildURLStr called twice with the same arguments.
CallBuildURLStr ==
    /\ pc = "idle"
    /\ \E baseURL \in BaseURLs, path \in Tables, queryParams \in Queries :
           Finish("buildURLStr",
                [Args0 EXCEPT !.urlStr = baseURL, !.table = path, !.query = queryParams],
                [str |-> buildURLStr(baseURL, path, queryParams).str,
                 err |-> buildURLStr(baseURL, path, queryParams).err,
                 again |-> buildURLStr(baseURL, path, queryParams)])

\* The caller takes the result; nothing of the call is kept by the Agent.
Return ==
    /\ pc = "returned"
    /\ pc' = "idle"
    /\ op' = "none"
    /\ args' = Args0
    /\ signs' = <<>>
    /\ sent' = <<>>
    /\ ret' = Ret0
    /\ UNCHANGED <<config, generateJWT, threads>>

Next ==
    \/ CallNewRequest
    \/ CallPing
    \/ CallGet
    \/ CallGetJSON
    \/ CallPost
    \/ CallPostJSON
    \/ CallPostAndReturn
    \/ CallPatch
    \/ CallPatchJSON
    \/ CallDelete
    \/ CallDeleteJSON
    \/ CallIsSuccess
    \/ CallUnmarshalResponse
    \/ CallNewAgent
    \/ CallValid
    \/ CallBuildURLStr
    \/ Return

Spec == Init /\ [][Next]_vars

(***************************************************************************)
(* Concurrent callers.  Several goroutines call operations of one Agent;   *)
(* each runs its operation statement by statement, and the statements of   *)
(* different callers interleave.  The Agent's fields are only read.        *)
(***************************************************************************)
\* The calls a caller may make: the operation and its arguments.
Call0 == [op |-> "Ping", table |-> "", query |-> Nil, body |-> Nil, payload |-> JSONNull,
          target |-> Nil]

ConcCalls ==
    {[Call0 EXCEPT !.op = "Get", !.table = t, !.query = q] :
        t \in Tables, q \in {Nil, Some([id |-> "1"])}}
    \cup {[Call0 EXCEPT !.op = o, !.table = "test_table", !.query = Some([id |-> "1"])] :
            o \in {"Delete", "DeleteJSON"}}
    \cup {[Call0 EXCEPT !.op = o, !.table = "test_table", !.body = Some(<<"7">>)] :
            o \in {"Post", "PostAndReturn", "Patch"}}
    \cup {[Call0 EXCEPT !.op = "GetJSON", !.table = "test_table",
                        !.target = Some([kind |-> "any", val |-> JSONNull])]}
    \cup {[Call0 EXCEPT !.op = "PostJSON", !.table = "test_table", !.payload = p, !.target = g] :
            p \in {[kind |-> "number", val |-> 12], [kind |-> "func", val |-> 0]},
            g \in {Nil, Some([kind |-> "any", val |-> JSONNull])}}
    \cup {[Call0 EXCEPT !.op = "PatchJSON", !.table = "test_table",
                        !.payload = [kind |-> "bool", val |-> 1]]}
    \cup {Call0}

\* The answers of the transport in the concurrent runs.
ConcOutcomes == {Answer(200, "200 OK", Chars("true")), Answer(404, "404 Not Found", <<"N", "o">>)}

\* The HTTP method the operation passes to sendRequest or NewRequest.
methodOf(name) ==
    CASE name \in {"Get", "GetJSON", "Ping"} -> MethodGet
      [] name \in {"Post", "PostAndReturn", "PostJSON"} -> MethodPost
      [] name \in {"Patch", "PatchJSON"} -> MethodPatch
      [] OTHER -> MethodDelete

\* The base address the operation passes to buildURLStr.
baseOf(cfg, name) ==
    IF name \in {"Get", "GetJSON"} THEN cfg.SlaveBaseURL ELSE cfg.MasterBaseURL

\* The query parameters the operation passes to buildURLStr.
queryOf(t) == IF t.op \in {"Post", "PostAndReturn", "PostJSON"} THEN Nil ELSE t.query

\* The request goes through PostAndReturn.
returning(t) == t.op = "PostAndReturn" \/ (t.op = "PostJSON" /\ t.target # Nil)

\* Faulty variant of tokenOf: the token is read from a place the callers
\* share, where another caller's token may stand.
tokenOf_Shared(ts, c) == ts[CHOOSE d \in Callers : d # c].tokenStr

\* The local variable tokenStr of caller c's newReadRequest or newWriteRequest.
tokenOf(ts, c) == ts[c].tokenStr

\* The caller's operation returns err; Ping wraps it with the probed side's name.
failed(t, err) ==
    [t EXCEPT !.pc = "done", !.request = Nil,
              !.err = IF t.op = "Ping"
                      THEN pingURLs(config)[t.probe].name \o " service error: " \o err
                      ELSE err]

\* The call itself: the arguments are bound; Ping starts its loop.
begun(call) ==
    IF call.op = "Ping"
    THEN [Thread0 EXCEPT !.pc = "sign", !.op = call.op, !.method = methodOf(call.op),
                         !.probe = 1, !.urlStr = pingURLs(config)[1].url]
    ELSE [Thread0 EXCEPT !.pc = IF call.op \in {"PostJSON", "PatchJSON"} THEN "encode"
                                ELSE "url",
                         !.op = call.op, !.method = methodOf(call.op),
                         !.table = call.table, !.query = call.query, !.body = call.body,
                         !.payload = call.payload, !.target = call.target]

\* "body, err := jsonEncode(payload); if err != nil { return 0, err }".
encoded(t, e) ==
    IF e.err # NoErr THEN failed(t, e.err) ELSE [t EXCEPT !.pc = "url", !.body = Some(e.body)]

\* "urlStr, err := buildURLStr(...); if err != nil { return nil, err }".
urlBuilt(t, u) ==
    IF u.err # NoErr THEN failed(t, u.err) ELSE [t EXCEPT !.pc = "sign", !.urlStr = u.str]

\* NewRequest up to the token: the URL check, then generateReadTokenStr or
\* generateWriteTokenStr with the clock at now.
signed(t, now) ==
    IF t.urlStr = <<>> THEN failed(t, errMissingRequestURL)
    ELSE [t EXCEPT !.pc = "make", !.nows = Append(@, now),
                   !.tokenStr = IF t.method = MethodGet
                                THEN generateReadTokenStr(config, generateJWT, now)
                                ELSE generateWriteTokenStr(config, generateJWT, now)]

\* The rest of newReadRequest or newWriteRequest, r being what it returns.
made(t, r) ==
    IF r.err # NoErr THEN failed(t, r.err)
    ELSE [t EXCEPT !.request = r.request,
                   !.pc = IF returning(t) THEN "prefer" ELSE "send"]

\* Ping's loop after a probe that sendRequest answered with e (NoErr: go on).
probed(t, e) ==
    IF e # NoErr THEN [t EXCEPT !.pc = "done", !.err = e]
    ELSE IF t.probe = Len(pingURLs(config)) THEN [t EXCEPT !.pc = "done"]
    ELSE [t EXCEPT !.pc = "sign", !.probe = t.probe + 1,
                   !.urlStr = pingURLs(config)[t.probe + 1].url]

\* httpClient.Do(request) answered d to the request the caller built.
answered(t, o, d) ==
    With([t EXCEPT !.sent = Append(@, t.request[1]), !.outcomes = Append(@, o),
                   !.request = Nil], LAMBDA u :
        IF t.op = "Ping"
        THEN probed(u, probeError(pingURLs(config)[t.probe], d))
        ELSE IF t.op \in {"GetJSON", "PostJSON", "PatchJSON", "DeleteJSON"} /\ d.err = NoErr
        THEN [u EXCEPT !.pc = "normalise", !.response = d.response]
        ELSE [u EXCEPT !.pc = "done", !.err = d.err])

\* "return unmarshalResponse(response, target)", n being what it returns.
normalised(t, n) ==
    [t EXCEPT !.pc = "done", !.status = n.status, !.err = n.err, !.target = n.target,
              !.response = Nil]

\* Caller c's locals become t; nothing else changes.
Step(c, t) ==
    /\ threads' = [threads EXCEPT ![c] = t]
    /\ UNCHANGED <<config, generateJWT, pc, op, args, signs, sent, ret>>

CallerBegins ==
    \E c \in Callers :
        /\ threads[c].pc = "idle"
        /\ \E call \in ConcCalls : Step(c, begun(call))

CallerEncodes ==
    \E c \in Callers :
        /\ threads[c].pc = "encode"
        /\ Step(c, encoded(threads[c], jsonEncode(threads[c].payload)))

CallerBuildsURL ==
    \E c \in Callers :
        /\ threads[c].pc = "url"
        /\ Step(c, urlBuilt(threads[c],
                            buildURLStr(baseOf(config, threads[c].op), threads[c].table,
                                        queryOf(threads[c]))))

CallerSigns ==
    \E c \in Callers :
        /\ threads[c].pc = "sign"
        /\ \E now \in Times :
               /\ \A i \in 1..Len(threads[c].nows) : threads[c].nows[i] <= now
               /\ Step(c, signed(threads[c], now))

CallerMakesRequest ==
    \E c \in Callers :
        /\ threads[c].pc = "make"
        /\ Step(c, made(threads[c],
                        requestWith(tokenOf(threads, c), threads[c].method, threads[c].urlStr,
                                    IF threads[c].method = MethodGet THEN Nil
                                    ELSE threads[c].body)))

CallerAddsPrefer ==
    \E c \in Callers :
        /\ threads[c].pc = "prefer"
        /\ Step(c, [threads[c] EXCEPT !.request = Some(preferRepresentation(threads[c])),
                                      !.pc = "send"])

CallerSends ==
    \E c \in Callers :
        /\ threads[c].pc = "send"
        /\ \E o \in ConcOutcomes :
               Step(c, answered(threads[c], o, httpDo(threads[c].request[1], o)))

CallerNormalises ==
    \E c \in Callers :
        /\ threads[c].pc = "normalise"
        /\ Step(c, normalised(threads[c],
                              unmarshalResponse(threads[c].response[1], threads[c].target)))

CallerReturns ==
    \E c \in Callers :
        /\ threads[c].pc = "done"
        /\ Step(c, Thread0)

ConcInit ==
    /\ config \in {c \in Configs : /\ c.Timeout = Int64(1)
                                    /\ c.MasterBaseURL = HTTP("m")}
    /\ generateJWT \in {"sign", "failing"}
    /\ pc = "idle"
    /\ op = "none"
    /\ args = Args0
    /\ signs = <<>>
    /\ sent = <<>>
    /\ ret = Ret0
    /\ threads = [c \in Callers |-> Thread0]

ConcNext ==
    \/ CallerBegins
    \/ CallerEncodes
    \/ CallerBuildsURL
    \/ CallerSigns
    \/ CallerMakesRequest
    \/ CallerAddsPrefer
    \/ CallerSends
    \/ CallerNormalises
    \/ CallerReturns

ConcSpec == ConcInit /\ [][ConcNext]_vars

(***************************************************************************)
(* Vocabulary of the properties.                                           *)
(***************************************************************************)
ReadOps == {"Get", "GetJSON"}
WriteOps == {"Post", "PostJSON", "PostAndReturn", "Patch", "PatchJSON", "Delete", "DeleteJSON"}
JSONOps == {"GetJSON", "PostJSON", "PatchJSON", "DeleteJSON"}
VerbOps == ReadOps \cup WriteOps
RawOps == VerbOps \ JSONOps

\* The i-th request handed to the transport carries the token the i-th signer
\* invocation returned, and that invocation signed role with secret.
SignedFrom(i, role, secret) ==
    /\ i <= Len(signs)
    /\ signs[i].claims.Role = role
    /\ signs[i].secret = secret
    /\ "Bearer " \o signs[i].tokenStr \in {sent[i].Header.Authorization[j] :
                                               j \in 1..Len(sent[i].Header.Authorization)}

\* The request is addressed to the endpoint the base address names.
AddressedTo(request, baseURL) ==
    \E b \in {urlParse(baseURL)} :
        /\ b.err = NoErr
        /\ request.URL.Scheme = b.url.Scheme
        /\ request.URL.Host = b.url.Host
        /\ request.URL.Opaque = b.url.Opaque

\* The base address the operation builds its URL from.
BaseOf(name) == IF name \in ReadOps THEN config.SlaveBaseURL ELSE config.MasterBaseURL

\* The injected signer is one that fails.
SignerFails ==
    callJWT(generateJWT, generateClaims(config.MasterRole, config, 0), config.MasterSecret).err
        # NoErr

\* The response the normalizer was given by the call, if it was given one.
Normalised ==
    IF op = "unmarshalResponse" THEN {args.response[1]}
    ELSE IF op \in JSONOps /\ Len(sent) = 1 /\ args.outcomes[1].err = NoErr
    THEN {httpDo(sent[1], args.outcomes[1]).response[1]}
    ELSE {}

\* The required fields of cfg that are empty, or not positive.
MissingIn(cfg) ==
    (IF cfg.MasterBaseURL = <<>> THEN {"MasterBaseURL"} ELSE {}) \cup
    (IF cfg.MasterRole = "" THEN {"MasterRole"} ELSE {}) \cup
    (IF cfg.MasterSecret = "" THEN {"MasterSecret"} ELSE {}) \cup
    (IF cfg.SlaveBaseURL = <<>> THEN {"SlaveBaseURL"} ELSE {}) \cup
    (IF cfg.SlaveRole = "" THEN {"SlaveRole"} ELSE {}) \cup
    (IF cfg.SlaveSecret = "" THEN {"SlaveSecret"} ELSE {}) \cup
    (IF cfg.Timeout \in {Int64(0 - 1), Int64(0)} THEN {"Timeout"} ELSE {})

\* The field names the returned error lists.
Named == {ret.invalidFields[i] : i \in 1..Len(ret.invalidFields)}

\* The tokens of a URL string.
TokensOf(str) == {str[i] : i \in 1..Len(str)}

\* What a probe of Ping may have failed with: a construction error, a
\* transport error, or the status text of an answer.
ProbeCauses ==
    {signs[i].err : i \in 1..Len(signs)}
        \cup {urlParse(config.MasterBaseURL).err, urlParse(config.SlaveBaseURL).err}
        \cup {args.outcomes[i].err : i \in 1..Len(args.outcomes)}
        \cup {args.outcomes[i].Status : i \in 1..Len(args.outcomes)}

\* Ping returned an error that names the side.
PingBlames(side) == \E c \in ProbeCauses \ {NoErr} : ret.err = side \o " service error: " \o c

\* The i-th probe of Ping was answered with a 2xx status.
ProbeSucceeded(i) ==
    /\ Len(sent) >= i
    /\ args.outcomes[i].err = NoErr
    /\ 200 <= args.outcomes[i].StatusCode /\ args.outcomes[i].StatusCode < 300

\* s, continued with x up to length n.
Padded(s, n, x) == [i \in 1..n |-> IF i <= Len(s) THEN s[i] ELSE x]

\* The requests the call of a caller with locals t hands to the transport
\* when it runs alone, with the clock readings and the answers t has seen.
AloneSent(t) ==
    CASE t.op = "Get" ->
           Get(config, generateJWT, t.nows[1], t.table, t.query, t.outcomes[1]).sent
      [] t.op = "Post" ->
           Post(config, generateJWT, t.nows[1], t.table, t.body, t.outcomes[1]).sent
      [] t.op = "PostAndReturn" ->
           PostAndReturn(config, generateJWT, t.nows[1], t.table, t.body, t.outcomes[1]).sent
      [] t.op = "Patch" ->
           Patch(config, generateJWT, t.nows[1], t.table, t.query, t.body, t.outcomes[1]).sent
      [] t.op = "Delete" ->
           Delete(config, generateJWT, t.nows[1], t.table, t.query, t.outcomes[1]).sent
      [] t.op = "GetJSON" ->
           GetJSON(config, generateJWT, t.nows[1], t.table, t.query, t.target,
                   t.outcomes[1]).sent
      [] t.op = "PostJSON" ->
           PostJSON(config, generateJWT, t.nows[1], t.table, t.payload, t.target,
                    t.outcomes[1]).sent
      [] t.op = "PatchJSON" ->
           PatchJSON(config, generateJWT, t.nows[1], t.table, t.query, t.payload,
                     t.outcomes[1]).sent
      [] t.op = "DeleteJSON" ->
           DeleteJSON(config, generateJWT, t.nows[1], t.table, t.query, t.outcomes[1]).sent
      [] t.op = "Ping" ->
           Ping(config, generateJWT, Padded(t.nows, 2, MaxTime),
                Padded(t.outcomes, 2, Answer(404, "404 Not Found", <<"N", "o">>))).sent

\* The remote error: method, URL and status text of the failed call.
RemoteError(response) ==
    "postgrest error (" \o response.Request.Method \o " "
        \o Flatten(urlString(response.Request.URL)) \o "): " \o response.Status

(***************************************************************************)
(* C1.  A verb operation called with a non-empty table name hands the      *)
(* transport a request that, for Get and GetJSON, is addressed to          *)
(* SlaveBaseURL and carries a token signed from SlaveRole with             *)
(* SlaveSecret, and for every other verb is addressed to MasterBaseURL and *)
(* carries a token signed from MasterRole with MasterSecret.               *)
(***************************************************************************)
C1_VerbRouting ==
    (pc = "returned" /\ op \in VerbOps /\ args.table # "") =>
        \A i \in 1..Len(sent) :
            IF op \in ReadOps
            THEN /\ AddressedTo(sent[i], config.SlaveBaseURL)
                 /\ SignedFrom(i, config.SlaveRole, config.SlaveSecret)
            ELSE /\ AddressedTo(sent[i], config.MasterBaseURL)
                 /\ SignedFrom(i, config.MasterRole, config.MasterSecret)

C1_Witness ==
    /\ pc = "returned" /\ op = "Get" /\ args.table # "" /\ Len(sent) = 1
    /\ config.MasterBaseURL # config.SlaveBaseURL

(***************************************************************************)
(* C2.  NewRequest called with a non-empty URL and a non-empty method      *)
(* invokes the signer once, with (SlaveRole, SlaveSecret) when the method  *)
(* is exactly "GET" and with (MasterRole, MasterSecret) for every other    *)
(* method, whatever the URL and the body are.                              *)
(***************************************************************************)
C2_IdentityByMethod ==
    (pc = "returned" /\ op = "NewRequest" /\ args.urlStr # <<>> /\ args.method # "") =>
        /\ Len(signs) = 1
        /\ signs[1].claims.Role =
               (IF args.method = "GET" THEN config.SlaveRole ELSE config.MasterRole)
        /\ signs[1].secret =
               (IF args.method = "GET" THEN config.SlaveSecret ELSE config.MasterSecret)
        /\ \A i \in 1..Len(ret.request) :
               ret.request[i].Header.Authorization = <<"Bearer " \o signs[1].tokenStr>>

C2_Witness ==
    /\ pc = "returned" /\ op = "NewRequest" /\ args.method = "get"
    /\ args.urlStr = HTTP("s") \o <<"/", "t">> /\ args.body # Nil
    /\ Len(signs) = 1 /\ ret.request # Nil

(***************************************************************************)
(* C3.  Every request handed to the transport, the probes of Ping          *)
(* included, pairs an endpoint with the identity of the same side: a       *)
(* request addressed to MasterBaseURL carries a token signed from          *)
(* (MasterRole, MasterSecret), one addressed to SlaveBaseURL a token       *)
(* signed from (SlaveRole, SlaveSecret).                                   *)
(***************************************************************************)
C3_SameSidePairing ==
    \A i \in 1..Len(sent) :
        /\ AddressedTo(sent[i], config.MasterBaseURL) =>
               SignedFrom(i, config.MasterRole, config.MasterSecret)
        /\ AddressedTo(sent[i], config.SlaveBaseURL) =>
               SignedFrom(i, config.SlaveRole, config.SlaveSecret)

(***************************************************************************)
(* C4.  NewRequest with an empty URL returns the missing-URL error (also   *)
(* when the method is empty too), with a non-empty URL and an empty method *)
(* the missing-method error; in both cases it returns no request and does  *)
(* not invoke the signer.                                                  *)
(***************************************************************************)
C4_NewRequestFailsFast ==
    (pc = "returned" /\ op = "NewRequest") =>
        /\ args.urlStr = <<>> =>
               ret.err = errMissingRequestURL /\ ret.request = Nil /\ signs = <<>>
        /\ (args.urlStr # <<>> /\ args.method = "") =>
               ret.err = errMissingRequestMethod /\ ret.request = Nil /\ signs = <<>>

C4_Witness ==
    /\ pc = "returned" /\ op = "NewRequest" /\ args.urlStr = <<>> /\ args.method = ""
    /\ ret.err = errMissingRequestURL

(***************************************************************************)
(* C5 as stated.  With a signer that fails, every verb operation called    *)
(* with a non-empty table name and an encodable payload returns exactly    *)
(* the signer's error and no response, and the transport is not invoked.   *)
(***************************************************************************)
C5_AsStated ==
    (/\ pc = "returned" /\ op \in VerbOps /\ args.table # ""
     /\ jsonEncode(args.payload).err = NoErr
     /\ SignerFails) =>
        /\ Len(signs) = 1
        /\ ret.err = signs[1].err
        /\ ret.response = Nil /\ ret.status = 0
        /\ sent = <<>>

(***************************************************************************)
(* C5, amended.  With a signer that fails, every verb operation called     *)
(* with a non-empty table name and an encodable payload, on an Agent whose *)
(* base address for that operation parses, invokes the signer once and     *)
(* returns exactly the error the signer returned and no response, and the  *)
(* transport is not invoked.                                               *)
(***************************************************************************)
C5_SignerErrorReturned ==
    (/\ pc = "returned" /\ op \in VerbOps /\ args.table # ""
     /\ jsonEncode(args.payload).err = NoErr
     /\ urlParse(BaseOf(op)).err = NoErr
     /\ SignerFails) =>
        /\ Len(signs) = 1
        /\ signs[1].err # NoErr
        /\ ret.err = signs[1].err
        /\ ret.response = Nil /\ ret.status = 0
        /\ sent = <<>>

C5_Witness ==
    /\ pc = "returned" /\ op = "PatchJSON" /\ args.table # "" /\ SignerFails
    /\ urlParse(config.MasterBaseURL).err = NoErr
    /\ Len(signs) = 1 /\ ret.err = "mock error" /\ sent = <<>>

(***************************************************************************)
(* C6.  Every request handed to the transport, by any operation, carries   *)
(* exactly one Authorization header, and its value is "Bearer " followed   *)
(* by the token the signer returned for that request.                      *)
(***************************************************************************)
C6_BearerHeader ==
    \A i \in 1..Len(sent) :
        /\ i <= Len(signs)
        /\ signs[i].err = NoErr
        /\ sent[i].Header.Authorization = <<"Bearer " \o signs[i].tokenStr>>

C6_Witness ==
    /\ pc = "returned" /\ op = "Ping" /\ Len(sent) = 2 /\ generateJWT = "sign"

(***************************************************************************)
(* C7.  A request handed to the transport carries the header               *)
(* Prefer: return=representation exactly when PostAndReturn built it,      *)
(* PostJSON with a non-nil target included; every other request carries    *)
(* no Prefer header.                                                       *)
(***************************************************************************)
C7_PreferOnlyOnReturn ==
    \A i \in 1..Len(sent) :
        IF op = "PostAndReturn" \/ (op = "PostJSON" /\ args.target # Nil)
        THEN sent[i].Header.Prefer = <<"return=representation">>
        ELSE sent[i].Header.Prefer = <<>>

C7_Witness ==
    /\ pc = "returned" /\ op = "PostJSON" /\ args.target # Nil /\ Len(sent) = 1

C9_RemoteError ==
    pc = "returned" =>
        \A response \in Normalised :
            ~(200 <= response.StatusCode /\ response.StatusCode < 300) =>
                /\ ret.status = response.StatusCode
                /\ ret.err = RemoteError(response)
                /\ ret.decodes = 0
                /\ ret.target = args.target

C9_Witness ==
    /\ pc = "returned" /\ op = "unmarshalResponse" /\ args.target # Nil
    /\ args.response[1].StatusCode = 404 /\ ret.status = 404 /\ ret.err # NoErr

(***************************************************************************)
(* C10.  Given a response with a status code in [200, 300) and a non-nil   *)
(* target, the normalizer returns 500 and the decode error, which is not   *)
(* the remote error, when decoding the body fails, and the response's own  *)
(* status code and no error when it succeeds.                              *)
(***************************************************************************)
C10_DecodeOutcome ==
    (pc = "returned" /\ args.target # Nil) =>
        \A response \in Normalised :
            (200 <= response.StatusCode /\ response.StatusCode < 300) =>
                \E d \in {jsonDecode(response.Body, args.target[1])} :
                    IF d.err # NoErr
                    THEN /\ ret.status = 500
                         /\ ret.err = d.err
                         /\ ret.err # RemoteError(response)
                    ELSE /\ ret.status = response.StatusCode
                         /\ ret.err = NoErr
                         /\ ret.target = Some(d.target)

C10_Witness ==
    /\ pc = "returned" /\ op = "GetJSON" /\ args.target # Nil
    /\ args.outcomes[1].StatusCode = 200 /\ ret.status = 500 /\ ret.err # NoErr

(***************************************************************************)
(* C11.  Given a response with a status code in [200, 300) and a nil       *)
(* target, the normalizer returns the response's status code and no error  *)
(* and does not decode the body: a 2xx answer whose body is not JSON, as   *)
(* PatchJSON, DeleteJSON and PostJSON with a nil target may receive, is a   *)
(* success.                                                                *)
(***************************************************************************)
C11_NilTargetSuccess ==
    (pc = "returned" /\ args.target = Nil) =>
        \A response \in Normalised :
            (200 <= response.StatusCode /\ response.StatusCode < 300) =>
                /\ ret.status = response.StatusCode
                /\ ret.err = NoErr
                /\ ret.decodes = 0

C11_Witness ==
    /\ pc = "returned" /\ op = "PatchJSON" /\ Len(sent) = 1
    /\ args.outcomes[1].StatusCode = 200 /\ args.outcomes[1].Body = <<"t", "e", "s", "t">>
    /\ scanValue(args.outcomes[1].Body).err # NoErr
    /\ ret.status = 200 /\ ret.err = NoErr

(***************************************************************************)
(* C12.  Every call of the normalizer closes the body of the response it   *)
(* was given exactly once: on a status outside [200, 300), on a 2xx status *)
(* with a nil target, on a decode failure and on a decode success.         *)
(***************************************************************************)
C12_BodyClosedOnce ==
    pc = "returned" =>
        \A response \in Normalised : ret.closes = 1

C12_Witness ==
    /\ pc = "returned" /\ op = "unmarshalResponse" /\ args.target = Nil
    /\ args.response[1].StatusCode = 404 /\ ret.closes = 1

(***************************************************************************)
(* C13.  NewAgent with a config, a transport and a signer fails exactly    *)
(* when one of MasterBaseURL, MasterRole, MasterSecret, SlaveBaseURL,      *)
(* SlaveRole, SlaveSecret is empty or Timeout is not positive; the error   *)
(* then lists every such field, each once, and never Issuer.               *)
(***************************************************************************)
C13_AllInvalidFieldsNamed ==
    (/\ pc = "returned" /\ op = "NewAgent"
     /\ args.config # Nil /\ args.httpClient # Nil /\ args.jwtGenerator # Nil) =>
        /\ (ret.err # NoErr) <=> (MissingIn(args.config[1]) # {})
        /\ Named = MissingIn(args.config[1])
        /\ Len(ret.invalidFields) = Cardinality(MissingIn(args.config[1]))
        /\ "Issuer" \notin Named
        /\ ret.err # NoErr =>
               ret.err = "postgrest error: invalid config parameters: \n- "
                             \o stringsJoin(ret.invalidFields, "\n- ")

C13_Witness ==
    /\ pc = "returned" /\ op = "NewAgent"
    /\ args.config # Nil /\ args.httpClient # Nil /\ args.jwtGenerator # Nil
    /\ args.config[1].Issuer = ""
    /\ ret.invalidFields = <<"MasterRole", "SlaveSecret", "Timeout">>

(***************************************************************************)
(* C14.  NewAgent returns an Agent and no error, or no Agent and an error. *)
(* A nil config gives the missing-config error; otherwise a nil transport  *)
(* the missing-httpClient error; otherwise a nil signer the                *)
(* missing-jwtGenerator error; all three before the config's fields are    *)
(* validated.                                                              *)
(***************************************************************************)
C14_AgentOrError ==
    (pc = "returned" /\ op = "NewAgent") =>
        /\ (ret.agent # Nil /\ ret.err = NoErr) \/ (ret.agent = Nil /\ ret.err # NoErr)
        /\ args.config = Nil => ret.err = errMissingConfigParams
        /\ (args.config # Nil /\ args.httpClient = Nil) => ret.err = errMissingHTTPClient
        /\ (args.config # Nil /\ args.httpClient # Nil /\ args.jwtGenerator = Nil) =>
               ret.err = errMissingJWTGenerator

C14_Witness ==
    /\ pc = "returned" /\ op = "NewAgent"
    /\ args.config # Nil /\ MissingIn(args.config[1]) # {}
    /\ args.httpClient = Nil /\ args.jwtGenerator = Nil
    /\ ret.agent = Nil /\ ret.err = errMissingHTTPClient

C16_PathAndQueryReplaced ==
    (/\ pc = "returned" /\ op = "buildURLStr" /\ args.table # ""
     /\ urlParse(args.urlStr).err = NoErr) =>
        /\ ret.err = NoErr
        /\ \E b \in {urlParse(args.urlStr).url}, r \in {urlParse(ret.str).url} :
               /\ r.Scheme = b.Scheme /\ r.Host = b.Host
               /\ r.Path \in {<<args.table>>, <<"/", args.table>>}
               /\ r.RawQuery = (IF args.query = Nil THEN <<>>
                                ELSE valuesEncode(args.query[1]))
               /\ (TokensOf(b.Path) \cup TokensOf(b.RawQuery)) \cap TokensOf(ret.str)
                      \subseteq {"/"}

(***************************************************************************)
(* C17.  Ping probes the primary before the replica and stops at the first *)
(* failure.  When the primary probe fails (its request cannot be built,    *)
(* the transport fails, or the status is not 2xx) the error names          *)
(* "master" and the replica is not contacted; when the primary probe       *)
(* succeeds and the replica probe fails the error names "slave"; Ping      *)
(* returns nil exactly when both probes were answered with a 2xx status.   *)
(***************************************************************************)
C17_PingFailsFast ==
    (pc = "returned" /\ op = "Ping") =>
        /\ \A i \in 1..Len(sent) :
               AddressedTo(sent[i], pingURLs(config)[i].url) /\ sent[i].Method = MethodGet
        /\ ~ProbeSucceeded(1) =>
               /\ PingBlames("master") /\ ~PingBlames("slave")
               /\ Len(sent) <= 1 /\ Len(signs) <= 1
        /\ (ProbeSucceeded(1) /\ ~ProbeSucceeded(2)) =>
               PingBlames("slave") /\ ~PingBlames("master")
        /\ (ProbeSucceeded(1) /\ ProbeSucceeded(2)) <=> ret.err = NoErr

C17_Witness ==
    /\ pc = "returned" /\ op = "Ping" /\ Len(sent) = 1
    /\ args.outcomes[1].StatusCode = 404 /\ args.outcomes[2].err # NoErr
    /\ ret.err = "master service error: 404 Not Found"

(***************************************************************************)
(* C18.  Claims.Valid returns the missing-role error when Role is empty,   *)
(* also when the expiry is past; the invalid-expiry error when Role is not *)
(* empty and ExpiresAt is at or before the current Unix time; and no error *)
(* otherwise.                                                              *)
(***************************************************************************)
C18_ClaimsValid ==
    (pc = "returned" /\ op = "Valid") =>
        \A e \in 0..(MaxTime + MaxTimeout) :
            args.claims.ExpiresAt = Int64(e) =>
                /\ args.claims.Role = "" => ret.err = errMissingRoleClaim
                /\ (args.claims.Role # "" /\ e <= args.now) =>
                       ret.err = errInvalidExpiryClaim
                /\ (args.claims.Role # "" /\ e > args.now) => ret.err = NoErr

C18_Witness ==
    /\ pc = "returned" /\ op = "Valid" /\ args.claims.Role # ""
    /\ args.now > 0 /\ args.claims.ExpiresAt = Int64(args.now)
    /\ ret.err = errInvalidExpiryClaim

(***************************************************************************)
(* C19.  When several callers run operations of one Agent concurrently,    *)
(* under every interleaving of their steps each request handed to the      *)
(* transport is the request its caller's operation hands over when it runs *)
(* alone: endpoint, method, token and headers are those of the caller's    *)
(* own operation, never those chosen for another caller's.                 *)
(***************************************************************************)
C19_CallersIsolated ==
    \A c \in Callers :
        threads[c].sent # <<>> =>
            /\ Len(threads[c].sent) <= Len(AloneSent(threads[c]))
            /\ \A i \in 1..Len(threads[c].sent) :
                   threads[c].sent[i] = AloneSent(threads[c])[i]

C19_Witness ==
    /\ threads["A"].op = "Ping" /\ Len(threads["A"].sent) = 1 /\ threads["A"].pc = "make"
    /\ threads["B"].op = "PostAndReturn" /\ threads["B"].pc = "send"
    /\ threads["B"].request[1].Header.Prefer # <<>>

(***************************************************************************)
(* C20.  Get, Post, PostAndReturn, Patch and Delete return the response    *)
(* the transport answered with and a nil error whatever its status code,   *)
(* 404 included; GetJSON, PostJSON, PatchJSON and DeleteJSON return, for   *)
(* an answer with a status outside [200, 300), that status code and the    *)
(* remote error.                                                           *)
(***************************************************************************)
C20_RawVersusJSON ==
    (/\ pc = "returned" /\ op \in VerbOps /\ Len(sent) = 1
     /\ args.outcomes[1].err = NoErr) =>
        IF op \in RawOps
        THEN /\ ret.err = NoErr
             /\ ret.response # Nil
             /\ ret.response[1].StatusCode = args.outcomes[1].StatusCode
             /\ ret.response[1].Status = args.outcomes[1].Status
             /\ ret.response[1].Body = args.outcomes[1].Body
        ELSE ~(200 <= args.outcomes[1].StatusCode /\ args.outcomes[1].StatusCode < 300) =>
                 /\ ret.status = args.outcomes[1].StatusCode
                 /\ ret.err = "postgrest error (" \o sent[1].Method \o " "
                                   \o Flatten(urlString(sent[1].URL)) \o "): "
                                   \o args.outcomes[1].Status

C20_Witness ==
    /\ pc = "returned" /\ op = "Get" /\ Len(sent) = 1
    /\ args.query = Some([error |-> "404", id |-> "1"])
    /\ args.outcomes[1].StatusCode = 404
    /\ ret.err = NoErr /\ ret.response # Nil

(***************************************************************************)
(* C21.  When the transport fails on the request of a verb operation, Get, *)
(* Post, PostAndReturn, Patch and Delete return the transport's error      *)
(* unchanged, and the JSON variants return status 0 and that same error;   *)
(* the normalizer is not invoked, so there is no remote or decode error.   *)
(***************************************************************************)
C21_TransportErrorVerbatim ==
    (/\ pc = "returned" /\ op \in VerbOps /\ Len(sent) = 1
     /\ args.outcomes[1].err # NoErr) =>
        /\ ret.err = args.outcomes[1].err
        /\ ret.status = 0
        /\ ret.closes = 0 /\ ret.decodes = 0
        /\ Normalised = {}

C21_Witness ==
    /\ pc = "returned" /\ op = "GetJSON" /\ Len(sent) = 1 /\ args.target # Nil
    /\ args.outcomes[1].err = "dial tcp: connection refused"
    /\ ret.err = "dial tcp: connection refused" /\ ret.status = 0

\* The target of the call is a Go value of the payload's shape.
SameShape == args.target # Nil /\ args.target[1].kind = args.payload.kind

\* The transport was handed the request of the call and answered it with a
\* 2xx status and the request's body as the response body.
Echoed ==
    /\ Len(sent) = 1
    /\ args.outcomes[1].err = NoErr
    /\ isSuccess(args.outcomes[1].StatusCode)
    /\ sent[1].Body = Some(args.outcomes[1].Body)

(***************************************************************************)
(* C22 as stated.  PostJSON with a payload and a non-nil target of the     *)
(* same shape, answered 2xx with the encoded request body echoed back,     *)
(* returns the transport's status and no error and leaves the target       *)
(* equal to the payload.                                                   *)
(***************************************************************************)
C22_AsStated ==
    (pc = "returned" /\ op = "PostJSON" /\ SameShape /\ Echoed) =>
        /\ ret.status = args.outcomes[1].StatusCode
        /\ ret.err = NoErr
        /\ ret.target # Nil /\ ret.target[1].val = args.payload

(***************************************************************************)
(* C22, amended.  PostJSON with a payload and a non-nil target of the same *)
(* shape, answered 2xx with the encoded request body echoed back, returns  *)
(* the transport's status and no error; a target that is a map keeps the   *)
(* entries it held under keys the payload does not have, so the target is  *)
(* left equal to the payload when it held no entries of its own before the *)
(* call.                                                                   *)
(***************************************************************************)
C22_RoundTrip ==
    (pc = "returned" /\ op = "PostJSON" /\ SameShape /\ Echoed) =>
        /\ ret.status = args.outcomes[1].StatusCode
        /\ ret.err = NoErr
        /\ ret.target # Nil
        /\ args.payload.kind = "object" =>
               ret.target[1].val = JSONObject(args.payload.val @@ entries(args.target[1]))
        /\ entries(args.target[1]) = EmptyMap => ret.target[1].val = args.payload

C22_Witness ==
    /\ pc = "returned" /\ op = "PostJSON" /\ SameShape /\ Echoed
    /\ args.payload = JSONObject("a" :> 1)
    /\ args.target = Some([kind |-> "object", val |-> JSONObject(EmptyMap)])
    /\ ret.status = 201 /\ ret.err = NoErr
    /\ ret.target = Some([kind |-> "object", val |-> JSONObject("a" :> 1)])

(***************************************************************************)
(* C23.  A verb operation invokes the signer at most once and the          *)
(* transport at most once, whatever the outcome; Ping invokes each at most *)
(* twice, once per side; no request is handed to the transport a second    *)
(* time after a failure.                                                   *)
(***************************************************************************)
C23_NoRetry ==
    pc = "returned" =>
        /\ op \in VerbOps => (Len(signs) <= 1 /\ Len(sent) <= 1)
        /\ op = "Ping" =>
               /\ Len(signs) <= 2 /\ Len(sent) <= 2
               /\ \A i \in 1..Len(sent) : AddressedTo(sent[i], pingURLs(config)[i].url)
        /\ Len(sent) <= Len(signs)
        /\ \A i \in 1..Len(sent) :
               (args.outcomes[i].err # NoErr \/ ~isSuccess(args.outcomes[i].StatusCode)) =>
                   Len(sent) = i

C23_Witness ==
    /\ pc = "returned" /\ op = "PostJSON" /\ args.target # Nil
    /\ Len(signs) = 1 /\ Len(sent) = 1
    /\ args.outcomes[1].err = NoErr /\ ret.status = 500

(***************************************************************************)
(* C24 as stated.  Every verb operation called with an empty table name    *)
(* returns the missing-path error, and one called with a table name on an  *)
(* Agent whose base address for it does not parse returns the parse error; *)
(* in both cases neither the signer nor the transport is invoked.          *)
(***************************************************************************)
C24_AsStated ==
    (pc = "returned" /\ op \in VerbOps) =>
        /\ args.table = "" =>
               (ret.err = errMissingURLPath /\ signs = <<>> /\ sent = <<>>)
        /\ (args.table # "" /\ urlParse(BaseOf(op)).err # NoErr) =>
               (ret.err = urlParse(BaseOf(op)).err /\ signs = <<>> /\ sent = <<>>)

(***************************************************************************)
(* C24, amended.  Every verb operation called with an empty table name and *)
(* an encodable payload returns the missing-path error, and one called     *)
(* with a table name and an encodable payload on an Agent whose base       *)
(* address for it does not parse returns the parse error; PostJSON and     *)
(* PatchJSON with a payload that cannot be encoded return the encoder's    *)
(* error instead.  In all these cases neither the signer nor the transport *)
(* is invoked, whatever they would have answered.                          *)
(***************************************************************************)
C24_URLErrorsFirst ==
    (pc = "returned" /\ op \in VerbOps) =>
        /\ (args.table = "" \/ urlParse(BaseOf(op)).err # NoErr
               \/ jsonEncode(args.payload).err # NoErr) =>
               (signs = <<>> /\ sent = <<>> /\ ret.response = Nil /\ ret.status = 0)
        /\ jsonEncode(args.payload).err # NoErr => ret.err = jsonEncode(args.payload).err
        /\ (args.table = "" /\ jsonEncode(args.payload).err = NoErr) =>
               ret.err = errMissingURLPath
        /\ (args.table # "" /\ jsonEncode(args.payload).err = NoErr
               /\ urlParse(BaseOf(op)).err # NoErr) =>
               ret.err = urlParse(BaseOf(op)).err

C24_Witness ==
    /\ pc = "returned" /\ op = "PatchJSON" /\ args.table = ""
    /\ jsonEncode(args.payload).err = NoErr
    /\ SignerFails /\ args.outcomes[1].err # NoErr
    /\ urlParse(config.MasterBaseURL).err # NoErr
    /\ ret.err = errMissingURLPath /\ signs = <<>> /\ sent = <<>>

\* The number of requests of the call the transport answered with a response.
Answered(n) == Cardinality({i \in 1..n : args.outcomes[i].err = NoErr})

(***************************************************************************)
(* C25.  When GetJSON, PostJSON, PatchJSON, DeleteJSON or Ping returns,    *)
(* the body of every response the transport gave it has been closed,       *)
(* whether the call succeeded or failed.                                   *)
(***************************************************************************)
C25_BodiesClosed ==
    (pc = "returned" /\ op \in JSONOps \cup {"Ping"}) =>
        ret.closes = Answered(Len(sent))

(***************************************************************************)
(* C26.  No operation changes a field of the Config the Agent holds or     *)
(* replaces its transport or signer: the Agent NewAgent returns holds the  *)
(* Config, the transport and the signer it was given, and after any        *)
(* sequence of operations, successful or failing, they are the same.       *)
(***************************************************************************)
C26_AgentFrame ==
    [][/\ config' = config
       /\ generateJWT' = generateJWT
       /\ (op' = "NewAgent" /\ ret'.agent # Nil) =>
              ret'.agent[1] = [config |-> args'.config[1],
                               httpClient |-> args'.httpClient[1],
                               generateJWT |-> args'.jwtGenerator[1]]]_vars

C26_Witness ==
    /\ pc = "returned" /\ op = "Ping" /\ Len(sent) = 2 /\ ret.err # NoErr
    /\ config \in Configs /\ generateJWT \in Signers

(***************************************************************************)
(* C27.  For every Config NewAgent accepts, whatever its positive Timeout, *)
(* the Claims handed to the signer for a request have the role of one of   *)
(* the two identities with its secret, the configured issuer, and          *)
(* ExpiresAt equal to the current time plus Timeout seconds, which is      *)
(* after the current time, so that Claims.Valid accepts them when they are *)
(* minted.                                                                 *)
(***************************************************************************)
C27_ClaimsExpiry ==
    (/\ pc = "returned" /\ op \in VerbOps \cup {"NewRequest"} /\ Len(signs) = 1
     /\ validateConfig(config).err = NoErr) =>
        /\ <<signs[1].claims.Role, signs[1].secret>> \in
               {<<config.MasterRole, config.MasterSecret>>,
                <<config.SlaveRole, config.SlaveSecret>>}
        /\ signs[1].claims.Issuer = config.Issuer
        /\ signs[1].claims.ExpiresAt = sumFrom(Int64(args.now), config.Timeout, 1, 0)
        /\ ~lessOrEqual(signs[1].claims.ExpiresAt, Int64(args.now))
        /\ Valid(signs[1].claims, args.now) = NoErr

====
